---------------------------- MODULE Spec2Model ----------------------------
(***************************************************************************)
(* A model of engine_core (ScreenMu): the time remapper of time_remap.rs   *)
(* and the camera keyframe engine of camera.rs.                            *)
(*                                                                         *)
(* Timestamps are u64 microseconds.  Speeds are f32 values that are        *)
(* multiples of 0.25 and are written in quarter units (1 = 0.25, 4 = 1.0,  *)
(* 16 = 4.0): such values are exact in f32 and f64, and for the small      *)
(* operands of the model the f64 quotient L / speed and product R * speed  *)
(* round (half away from zero) to the same integer as the exact rational,  *)
(* so the integer formulas below compute what the code computes.           *)
(***************************************************************************)
EXTENDS Integers, Sequences, FiniteSets, TLC

VARIABLES remapper, config, ctor, json, call,
          camera, checked_build, generation, camera_call,
          engine_config, wasm_engine, batches, engine_call

\* a WasmTimeRemapper and what its host holds
rvars == <<remapper, config, ctor, json, call>>

\* a CameraEngine, the build it runs in, and what its host holds
cvars == <<camera, checked_build, generation, camera_call>>

\* an Engine, the configuration it was built from, and what its host holds
evars == <<engine_config, wasm_engine, batches, engine_call>>

vars == <<remapper, config, ctor, json, call,
          camera, checked_build, generation, camera_call,
          engine_config, wasm_engine, batches, engine_call>>

---------------------------------------------------------------------------
(* Bounds of the model. *)

\* source timestamps of the inputs range over 0..MaxTime
MaxTime == 3

\* a configuration holds at most MaxCuts cuts
MaxCuts == 2

\* a configuration holds at most MaxRamps speed ramps
MaxRamps == 2

\* a configuration holds at most MaxIntervals cuts and ramps together
MaxIntervals == 3

\* a cursor track holds at most MaxPoints points
MaxPoints == 2

\* a list of focus regions holds at most MaxRegions regions
MaxRegions == 2

\* generate_keyframes is called at most MaxGenerations times on an engine
MaxGenerations == 1

\* and at most MaxHistory times where the calls of one engine are compared
MaxHistory == 2

\* a batch holds at most MaxEvents events
MaxEvents == 2

\* process_signals is called at most MaxBatches times on an engine
MaxBatches == 2

---------------------------------------------------------------------------
(* Program constants, speeds in quarter units. *)

\* SpeedRamp::new clamps to 0.25 ..
SpeedMin == 1

\* .. 4.0
SpeedMax == 16

\* speed_at returns 1.0 outside every ramp
SpeedUnity == 4

---------------------------------------------------------------------------
(* time_remap.rs: TimeRange, SpeedRamp *)

TimeRange(start, end) == [start |-> start, end |-> end]

\* inclusive start, exclusive end
Contains(range, ts) == ts >= range.start /\ ts < range.end

Clamp(v, lo, hi) == IF v < lo THEN lo ELSE IF v > hi THEN hi ELSE v

\* the speed kept as given
SpeedRampUnclamped(range, speed) == [range |-> range, speed |-> speed]

SpeedRampNew(range, speed) ==
    [range |-> range, speed |-> Clamp(speed, SpeedMin, SpeedMax)]

\* (l / speed).round() as u64, speed in quarter units, l >= 0
RoundDiv(l, speed) == (8 * l + speed) \div (2 * speed)

\* the export offset taken as the source offset, the speed forgotten
RoundMulUnscaled(r, speed) == r

\* (r * speed).round() as u64, speed in quarter units, r >= 0
RoundMul(r, speed) == (r * speed + 2) \div 4

---------------------------------------------------------------------------
(* time_remap.rs: TimeRemapper *)

\* the start a cut (a TimeRange) or a speed ramp is sorted by
StartOf(x) == IF "range" \in DOMAIN x THEN x.range.start ELSE x.start

\* the range of a cut (itself) or of a speed ramp
RangeOf(x) == IF "range" \in DOMAIN x THEN x.range ELSE x

\* x placed behind every element whose start is <= its own: one step of a
\* stable sort by start
RECURSIVE InsertByStart(_, _)
InsertByStart(sorted, x) ==
    IF sorted = <<>> THEN <<x>>
    ELSE IF StartOf(Head(sorted)) <= StartOf(x)
         THEN <<Head(sorted)>> \o InsertByStart(Tail(sorted), x)
         ELSE <<x>> \o sorted

\* Vec::sort_by_key / sort_by on the start: a stable sort
RECURSIVE SortByStart(_)
SortByStart(s) ==
    IF s = <<>> THEN <<>>
    ELSE InsertByStart(SortByStart(SubSeq(s, 1, Len(s) - 1)), s[Len(s)])

TimeRemapperNew(cuts, speed_ramps, in_point, out_point) ==
    [cuts |-> SortByStart(cuts),
     speed_ramps |-> SortByStart(speed_ramps),
     in_point |-> in_point,
     out_point |-> out_point]

\* the export taken to start at the origin, the in point dropped
IdentityFromOrigin(in_point, out_point) ==
    [cuts |-> <<>>, speed_ramps |-> <<>>,
     in_point |-> 0, out_point |-> out_point]

Identity(in_point, out_point) ==
    [cuts |-> <<>>, speed_ramps |-> <<>>,
     in_point |-> in_point, out_point |-> out_point]

\* only the timestamps of the trimmed range looked up
IsCutInTrim(r, source_time) ==
    /\ r.in_point <= source_time /\ source_time < r.out_point
    /\ \E i \in DOMAIN r.cuts : Contains(r.cuts[i], source_time)

IsCut(r, source_time) ==
    \E i \in DOMAIN r.cuts : Contains(r.cuts[i], source_time)

\* iter().find(|x| x.contains(ts)): the first element of the sequence whose
\* range contains ts, as <<element>>, or <<>>
RECURSIVE FindContaining(_, _)
FindContaining(s, ts) ==
    IF s = <<>> THEN <<>>
    ELSE IF Contains(RangeOf(Head(s)), ts) THEN <<Head(s)>>
    ELSE FindContaining(Tail(s), ts)

\* the last ramp that contains the timestamp, not the first
SpeedAtLast(r, source_time) ==
    LET hits == {i \in DOMAIN r.speed_ramps :
                    Contains(r.speed_ramps[i].range, source_time)}
    IN  IF hits /= {}
        THEN r.speed_ramps[CHOOSE i \in hits : \A j \in hits : j <= i].speed
        ELSE SpeedUnity

SpeedAt(r, source_time) ==
    LET found == FindContaining(r.speed_ramps, source_time)
    IN  IF found /= <<>> THEN found[1].speed ELSE SpeedUnity

\* no start of a cut taken as a boundary
BoundaryIgnoringCuts(cuts, source_time, next) == next

\* the loop over the cuts of find_next_boundary
RECURSIVE BoundaryOverCuts(_, _, _)
BoundaryOverCuts(cuts, source_time, next) ==
    IF cuts = <<>> THEN next
    ELSE LET cut_start == Head(cuts).start
         IN  BoundaryOverCuts(Tail(cuts), source_time,
                 IF cut_start > source_time /\ cut_start < next
                 THEN cut_start ELSE next)

\* only the starts of the speed ramps taken as boundaries
RECURSIVE BoundaryOverRampStarts(_, _, _)
BoundaryOverRampStarts(ramps, source_time, next) ==
    IF ramps = <<>> THEN next
    ELSE LET ramp_start == Head(ramps).range.start
         IN  BoundaryOverRampStarts(Tail(ramps), source_time,
                 IF ramp_start > source_time /\ ramp_start < next
                 THEN ramp_start ELSE next)

\* the loop over the speed ramps of find_next_boundary
RECURSIVE BoundaryOverRamps(_, _, _)
BoundaryOverRamps(ramps, source_time, next) ==
    IF ramps = <<>> THEN next
    ELSE LET ramp_start == Head(ramps).range.start
             ramp_end == Head(ramps).range.end
             n1 == IF ramp_start > source_time /\ ramp_start < next
                   THEN ramp_start ELSE next
             n2 == IF ramp_end > source_time /\ ramp_end < n1
                   THEN ramp_end ELSE n1
         IN  BoundaryOverRamps(Tail(ramps), source_time, n2)

\* the first boundary at or after the timestamp, not strictly after it
FindBoundaryFrom(r, source_time) ==
    LET points == {r.out_point}
                      \cup {r.cuts[i].start : i \in DOMAIN r.cuts}
                      \cup {r.speed_ramps[i].range.start :
                                i \in DOMAIN r.speed_ramps}
                      \cup {r.speed_ramps[i].range.end :
                                i \in DOMAIN r.speed_ramps}
        from == {t \in points : t >= source_time /\ t <= r.out_point}
    IN  IF from = {} THEN r.out_point
        ELSE CHOOSE t \in from : \A u \in from : t <= u

FindNextBoundary(r, source_time) ==
    BoundaryOverRamps(r.speed_ramps, source_time,
        BoundaryOverCuts(r.cuts, source_time, r.out_point))

Min(a, b) == IF a <= b THEN a ELSE b

\* the while loop of export_duration, from source_time with export_duration
\* accumulated so far
RECURSIVE ExportWalk(_, _, _)
ExportWalk(r, source_time, export_duration) ==
    IF ~(source_time < r.out_point) THEN export_duration
    ELSE LET cut == FindContaining(r.cuts, source_time)
         IN  IF cut /= <<>>
             THEN ExportWalk(r, Min(cut[1].end, r.out_point), export_duration)
             ELSE LET next_boundary == FindNextBoundary(r, source_time)
                      segment_source_duration == next_boundary - source_time
                      speed == SpeedAt(r, source_time)
                  IN  ExportWalk(r, next_boundary,
                          export_duration
                            + RoundDiv(segment_source_duration, speed))

ExportDuration(r) ==
    IF r.out_point <= r.in_point THEN 0
    ELSE ExportWalk(r, r.in_point, 0)

\* one cut skipped, the position behind it not checked again
SkipOnce(r, current) ==
    LET cut == FindContaining(r.cuts, current)
    IN  IF cut /= <<>> THEN cut[1].end ELSE current

\* the loop of skip_cuts_forward, before the final clamp
RECURSIVE SkipLoop(_, _)
SkipLoop(r, current) ==
    LET cut == FindContaining(r.cuts, current)
    IN  IF cut /= <<>> THEN SkipLoop(r, cut[1].end) ELSE current

SkipCutsForward(r, ts) == Min(SkipLoop(r, ts), r.out_point)

\* the while loop of to_source_time
RECURSIVE SourceWalk(_, _, _)
SourceWalk(r, source_time, remaining_export_time) ==
    IF ~(remaining_export_time > 0 /\ source_time < r.out_point)
    THEN source_time
    ELSE LET next_boundary == FindNextBoundary(r, source_time)
             segment_source_duration == next_boundary - source_time
             speed == SpeedAt(r, source_time)
             segment_export_duration ==
                 RoundDiv(segment_source_duration, speed)
         IN  IF remaining_export_time < segment_export_duration
             THEN SourceWalk(r,
                      source_time + RoundMul(remaining_export_time, speed), 0)
             ELSE SourceWalk(r, SkipCutsForward(r, next_boundary),
                      remaining_export_time - segment_export_duration)

ToSourceTime(r, export_time) ==
    LET source_time == SkipCutsForward(r, r.in_point)
    IN  IF export_time = 0 THEN source_time
        ELSE Min(SourceWalk(r, source_time, export_time), r.out_point)

\* the loop of export_duration, iteration by iteration: source_time and
\* export_duration at the start of each iteration and when the loop is
\* left, the loop followed for at most fuel iterations
RECURSIVE ExportIterations(_, _, _, _)
ExportIterations(r, source_time, export_duration, fuel) ==
    LET at == [source_time |-> source_time,
               export_duration |-> export_duration]
    IN  IF ~(source_time < r.out_point) \/ fuel = 0 THEN <<at>>
        ELSE LET cut == FindContaining(r.cuts, source_time)
                 next_boundary == FindNextBoundary(r, source_time)
                 speed == SpeedAt(r, source_time)
             IN  IF cut /= <<>>
                 THEN <<at>> \o ExportIterations(r,
                                    Min(cut[1].end, r.out_point),
                                    export_duration, fuel - 1)
                 ELSE <<at>> \o ExportIterations(r, next_boundary,
                                    export_duration
                                      + RoundDiv(next_boundary - source_time,
                                                 speed),
                                    fuel - 1)

\* the loop of skip_cuts_forward, iteration by iteration: current at the
\* start of each iteration, the last of them the one that breaks, the loop
\* followed for at most fuel iterations
RECURSIVE SkipIterations(_, _, _)
SkipIterations(r, current, fuel) ==
    LET cut == FindContaining(r.cuts, current)
    IN  IF cut = <<>> \/ fuel = 0 THEN <<[source_time |-> current]>>
        ELSE <<[source_time |-> current]>>
                 \o SkipIterations(r, cut[1].end, fuel - 1)

\* the while loop of to_source_time, iteration by iteration: source_time
\* and remaining_export_time at the start of each iteration and when the
\* loop is left, the loop followed for at most fuel iterations
RECURSIVE SourceIterations(_, _, _, _)
SourceIterations(r, source_time, remaining_export_time, fuel) ==
    LET at == [source_time |-> source_time,
               remaining_export_time |-> remaining_export_time]
    IN  IF ~(remaining_export_time > 0 /\ source_time < r.out_point)
           \/ fuel = 0
        THEN <<at>>
        ELSE LET next_boundary == FindNextBoundary(r, source_time)
                 speed == SpeedAt(r, source_time)
                 segment_export_duration ==
                     RoundDiv(next_boundary - source_time, speed)
             IN  IF remaining_export_time < segment_export_duration
                 THEN <<at>> \o SourceIterations(r,
                                    source_time
                                      + RoundMul(remaining_export_time, speed),
                                    0, fuel - 1)
                 ELSE <<at>> \o SourceIterations(r,
                                    SkipCutsForward(r, next_boundary),
                                    remaining_export_time
                                      - segment_export_duration,
                                    fuel - 1)

---------------------------------------------------------------------------
(* time_remap.rs: WasmTimeRemapper, built from and serialized to a         *)
(* TimeRemapperConfig                                                      *)

CutOfConfig(c) == TimeRange(c.start_us, c.end_us)

RampOfConfig(c) == SpeedRampNew(TimeRange(c.start_us, c.end_us), c.speed)

WasmNew(cfg) ==
    TimeRemapperNew([i \in DOMAIN cfg.cuts |-> CutOfConfig(cfg.cuts[i])],
                    [i \in DOMAIN cfg.speed_ramps |-> RampOfConfig(cfg.speed_ramps[i])],
                    cfg.in_point_us, cfg.out_point_us)

ConfigOfCut(c) == [start_us |-> c.start, end_us |-> c.end]

ConfigOfRamp(r) ==
    [start_us |-> r.range.start, end_us |-> r.range.end, speed |-> r.speed]

ToJson(r) ==
    [cuts |-> [i \in DOMAIN r.cuts |-> ConfigOfCut(r.cuts[i])],
     speed_ramps |-> [i \in DOMAIN r.speed_ramps |-> ConfigOfRamp(r.speed_ramps[i])],
     in_point_us |-> r.in_point,
     out_point_us |-> r.out_point]

---------------------------------------------------------------------------
(* types.rs and camera.rs: the camera engine.                              *)
(*                                                                         *)
(* The f32 quantities (coordinates, sizes, zoom, dead zone, pan speed per  *)
(* second) are written in units of 0.0001: 5000 is 0.5.  Importance is in  *)
(* hundredths.  Distances are compared through their squares.  The center  *)
(* a pan-speed clamp computes is rounded to the unit; progress and eased   *)
(* progress of an interpolation are in thousandths.                        *)

\* default_min_hold_time(): 500 ms
DefaultMinHoldTime == 500000

\* default_max_pan_speed(): 0.5
DefaultMaxPanSpeed == 5000

\* default_dead_zone(): 0.05
DefaultDeadZone == 500

\* default_zoom_strength(): 1.5
DefaultZoomStrength == 15000

\* only points of confidence 70 and more give a keyframe
MinConfidence == 70

\* only regions of importance 0.8 and more give a keyframe
MinImportance == 80

\* NormalizedCoord::new: both components clamped to [0, 1]
NormalizedCoord(x, y) == [x |-> Clamp(x, 0, 10000), y |-> Clamp(y, 0, 10000)]

\* NormalizedCoord::center()
CoordCenter == [x |-> 5000, y |-> 5000]

\* NormalizedRect::center
RectCenter(b) == NormalizedCoord(b.x + b.width \div 2, b.y + b.height \div 2)

\* Viewport::default()
DefaultViewport == [center |-> CoordCenter, zoom |-> 10000]

CameraKeyframe(timestamp, viewport, easing) ==
    [timestamp |-> timestamp, viewport |-> viewport, easing |-> easing]

\* the settings every field of which takes its serde default
SerdeDefaultSettings ==
    [min_hold_time_us |-> DefaultMinHoldTime,
     max_pan_speed |-> DefaultMaxPanSpeed,
     dead_zone |-> DefaultDeadZone,
     zoom_strength |-> DefaultZoomStrength]

\* CameraSettings::default(), derived: every field zero
DerivedDefaultSettings ==
    [min_hold_time_us |-> 0, max_pan_speed |-> 0, dead_zone |-> 0,
     zoom_strength |-> 0]

\* the square of the distance between two coordinates
DistanceSquared(a, b) == (a.x - b.x) * (a.x - b.x) + (a.y - b.y) * (a.y - b.y)

\* no target lies within the dead zone
NeverWithinDeadZone(settings, center, target) == FALSE

\* distance < dead_zone
IsWithinDeadZone(settings, center, target) ==
    DistanceSquared(center, target) < settings.dead_zone * settings.dead_zone

\* the zoom strength for every point, whatever its state
ViewportAtStrength(settings, point) ==
    [center |-> point.position, zoom |-> settings.zoom_strength]

CalculateViewport(settings, point) ==
    [center |-> point.position,
     zoom |-> CASE point.state = "Visible" -> settings.zoom_strength
                [] point.state = "Inferred" ->
                       (settings.zoom_strength * 8) \div 10
                [] point.state = "Hidden" -> 10000]

\* the zoom strength for every bounds, whatever their size
ZoomAtStrength(settings, bounds) == settings.zoom_strength

CalculateZoomForBounds(settings, bounds) ==
    LET max_dim == IF bounds.width >= bounds.height THEN bounds.width
                   ELSE bounds.height
    IN  IF max_dim > 0
        THEN Min(100000000 \div max_dim, settings.zoom_strength)
        ELSE 10000

\* the seed keyframe, if either input has an element
SeedKeyframes(cursor_track, focus_regions) ==
    IF cursor_track /= <<>> \/ focus_regions /= <<>>
    THEN LET first_ts == IF cursor_track /= <<>> THEN cursor_track[1].timestamp
                         ELSE focus_regions[1].timestamp
         IN  <<CameraKeyframe(first_ts, DefaultViewport, "EaseOut")>>
    ELSE <<>>

\* point.timestamp - last_keyframe_ts leaves the u64 range
Underflows(point, last_keyframe_ts) == point.timestamp < last_keyframe_ts

\* no point comes too soon after the last keyframe
NeverTooSoon(settings, point, last_keyframe_ts) == FALSE

\* time_since_last < min_hold_time_us; a difference that wrapped is
\* 2^64 - (last - ts), above every hold time of the model
TooSoon(settings, point, last_keyframe_ts) ==
    /\ ~Underflows(point, last_keyframe_ts)
    /\ point.timestamp - last_keyframe_ts < settings.min_hold_time_us

\* the loop over the cursor track; overflow_checks tells whether the build
\* checks arithmetic (then an underflow panics) or wraps
RECURSIVE CursorLoop(_, _, _, _, _)
CursorLoop(settings, overflow_checks, track, keyframes, last_keyframe_ts) ==
    IF track = <<>> THEN [panicked |-> FALSE, keyframes |-> keyframes]
    ELSE LET point == Head(track)
         IN  IF Underflows(point, last_keyframe_ts) /\ overflow_checks
             THEN [panicked |-> TRUE, keyframes |-> keyframes]
             ELSE IF \/ TooSoon(settings, point, last_keyframe_ts)
                     \/ (keyframes /= <<>> /\
                         IsWithinDeadZone(settings,
                             keyframes[Len(keyframes)].viewport.center,
                             point.position))
                     \/ point.confidence < MinConfidence
                  THEN CursorLoop(settings, overflow_checks, Tail(track),
                                  keyframes, last_keyframe_ts)
                  ELSE CursorLoop(settings, overflow_checks, Tail(track),
                           Append(keyframes,
                               CameraKeyframe(point.timestamp,
                                   CalculateViewport(settings, point),
                                   "EaseInOut")),
                           point.timestamp)

\* the loop over the focus regions
RECURSIVE FocusLoop(_, _, _)
FocusLoop(settings, regions, keyframes) ==
    IF regions = <<>> THEN keyframes
    ELSE LET region == Head(regions)
         IN  FocusLoop(settings, Tail(regions),
                 IF region.importance >= MinImportance
                 THEN Append(keyframes,
                          CameraKeyframe(region.timestamp,
                              [center |-> RectCenter(region.bounds),
                               zoom |-> CalculateZoomForBounds(settings,
                                                               region.bounds)],
                              "EaseOut"))
                 ELSE keyframes)

\* kf placed behind every keyframe whose timestamp is <= its own: one step
\* of a stable sort
RECURSIVE InsertByTimestamp(_, _)
InsertByTimestamp(sorted, kf) ==
    IF sorted = <<>> THEN <<kf>>
    ELSE IF Head(sorted).timestamp <= kf.timestamp
         THEN <<Head(sorted)>> \o InsertByTimestamp(Tail(sorted), kf)
         ELSE <<kf>> \o sorted

\* keyframes.sort_by_key(|kf| kf.timestamp): a stable sort
RECURSIVE SortByTimestamp(_)
SortByTimestamp(s) ==
    IF s = <<>> THEN <<>>
    ELSE InsertByTimestamp(SortByTimestamp(SubSeq(s, 1, Len(s) - 1)),
                           s[Len(s)])

\* the largest k in lo .. hi with k * k <= n, given lo * lo <= n
RECURSIVE SqrtBetween(_, _, _)
SqrtBetween(n, lo, hi) ==
    IF lo >= hi THEN lo
    ELSE LET mid == (lo + hi + 1) \div 2
         IN  IF mid * mid <= n THEN SqrtBetween(n, mid, hi)
             ELSE SqrtBetween(n, lo, mid - 1)

\* sqrt of a squared distance, to the unit
Sqrt(n) == SqrtBetween(n, 0, 14143)

\* max_pan_speed * duration_secs: the distance the center may move in dt
\* microseconds
PanLimit(settings, dt) == ((dt \div 100) * settings.max_pan_speed) \div 10000

\* d * scale with scale = limit / distance, rounded to the unit
ScaledComponent(d, limit, distance) ==
    IF d >= 0 THEN (2 * d * limit + distance) \div (2 * distance)
    ELSE 0 - ((2 * (0 - d) * limit + distance) \div (2 * distance))

\* keyframe curr as it is, whatever its distance from prev
Unsmoothed(settings, prev, curr) == curr

\* keyframe curr with its center moved no faster than max_pan_speed away
\* from the center of prev
SmoothedAfter(settings, prev, curr) ==
    LET prev_center == prev.viewport.center
        curr_center == curr.viewport.center
        dx == curr_center.x - prev_center.x
        dy == curr_center.y - prev_center.y
        d2 == dx * dx + dy * dy
        dt == curr.timestamp - prev.timestamp
        limit == PanLimit(settings, dt)
    IN  IF dt > 0 /\ d2 > limit * limit
        THEN [curr EXCEPT !.viewport.center =
                 NormalizedCoord(
                     prev_center.x + ScaledComponent(dx, limit, Sqrt(d2)),
                     prev_center.y + ScaledComponent(dy, limit, Sqrt(d2)))]
        ELSE curr

\* the loop of apply_smoothing: smoothed holds the keyframes done
RECURSIVE SmoothLoop(_, _, _)
SmoothLoop(settings, smoothed, rest) ==
    IF rest = <<>> THEN smoothed
    ELSE SmoothLoop(settings,
             Append(smoothed,
                 SmoothedAfter(settings, smoothed[Len(smoothed)], Head(rest))),
             Tail(rest))

ApplySmoothing(settings, keyframes) ==
    IF keyframes = <<>> THEN <<>>
    ELSE SmoothLoop(settings, <<Head(keyframes)>>, Tail(keyframes))

\* CameraEngine::new
CameraEngineNew(settings) == [settings |-> settings, keyframes |-> <<>>]

\* the timestamp of the last keyframe the engine holds, 0 if it holds none
LastStoredTimestamp(engine) ==
    IF engine.keyframes = <<>> THEN 0
    ELSE engine.keyframes[Len(engine.keyframes)].timestamp

\* let mut last_keyframe_ts = Timestamp::from_micros(0): every call starts
\* from 0, whatever the engine holds
FirstLastKeyframeTs(engine) == 0

\* the engine holding the keyframes of this call behind those it held
AccumulateKeyframes(engine, smoothed) ==
    [engine EXCEPT !.keyframes = engine.keyframes \o smoothed]

\* self.keyframes = smoothed.clone()
StoreKeyframes(engine, smoothed) == [engine EXCEPT !.keyframes = smoothed]

\* generate_keyframes on engine (its settings and the keyframes it holds):
\* whether it panicked, and the keyframes it returns and stores otherwise
GenerateKeyframes(engine, overflow_checks, cursor_track, focus_regions) ==
    LET settings == engine.settings
        cursor == CursorLoop(settings, overflow_checks, cursor_track,
                      SeedKeyframes(cursor_track, focus_regions),
                      FirstLastKeyframeTs(engine))
    IN  IF cursor.panicked THEN [panicked |-> TRUE, keyframes |-> <<>>]
        ELSE [panicked |-> FALSE,
              keyframes |->
                  ApplySmoothing(settings,
                      SortByTimestamp(
                          FocusLoop(settings, focus_regions,
                                    cursor.keyframes)))]

\* apply_easing on a progress in thousandths; no keyframe the engine makes
\* carries Spring
ApplyEasing(t, easing) ==
    CASE easing = "Linear" -> t
      [] easing = "EaseOut" ->
             1000 - ((1000 - t) * (1000 - t) * (1000 - t)) \div 1000000
      [] easing = "EaseInOut" ->
             IF t < 500 THEN (4 * t * t * t) \div 1000000
             ELSE 1000 - (((2000 - 2 * t) * (2000 - 2 * t) * (2000 - 2 * t))
                            \div 1000000) \div 2

\* lerp with t in thousandths
Lerp(a, b, t) == a + ((b - a) * t) \div 1000

\* the index of the first keyframe with timestamp <= t, 0 if there is none
FirstIndexBefore(keyframes, timestamp) ==
    LET before == {i \in DOMAIN keyframes :
                      keyframes[i].timestamp <= timestamp}
    IN  IF before = {} THEN 0
        ELSE CHOOSE i \in before : \A k \in before : i <= k

\* the index of the last keyframe with timestamp <= t, 0 if there is none
PrevIndex(keyframes, timestamp) ==
    LET before == {i \in DOMAIN keyframes :
                      keyframes[i].timestamp <= timestamp}
    IN  IF before = {} THEN 0
        ELSE CHOOSE i \in before : \A k \in before : k <= i

\* prev_kf and next_kf as the loop of get_viewport_at leaves them, for a
\* non-empty list
Surrounding(keyframes, timestamp) ==
    LET i == PrevIndex(keyframes, timestamp)
    IN  [prev_kf |-> IF i = 0 THEN keyframes[1] ELSE keyframes[i],
         next_kf |-> IF i = 0 THEN keyframes[1]
                     ELSE IF i + 1 <= Len(keyframes) THEN keyframes[i + 1]
                     ELSE keyframes[i]]

GetViewportAt(keyframes, timestamp) ==
    IF keyframes = <<>> THEN DefaultViewport
    ELSE LET prev_kf == Surrounding(keyframes, timestamp).prev_kf
             next_kf == Surrounding(keyframes, timestamp).next_kf
             duration == next_kf.timestamp - prev_kf.timestamp
             progress ==
                 ((timestamp - prev_kf.timestamp) * 1000) \div duration
             eased_progress == ApplyEasing(progress, next_kf.easing)
         IN  IF timestamp >= next_kf.timestamp THEN next_kf.viewport
             ELSE IF duration = 0 THEN prev_kf.viewport
             ELSE [center |->
                       NormalizedCoord(
                           Lerp(prev_kf.viewport.center.x,
                                next_kf.viewport.center.x, eased_progress),
                           Lerp(prev_kf.viewport.center.y,
                                next_kf.viewport.center.y, eased_progress)),
                   zoom |-> Lerp(prev_kf.viewport.zoom, next_kf.viewport.zoom,
                                 eased_progress)]

---------------------------------------------------------------------------
(* The facade (lib.rs) and the components behind it: the cursor tracker    *)
(* (cursor.rs), the focus analyzer (focus.rs) and the effect generator     *)
(* (effects.rs).                                                           *)
(*                                                                         *)
(* A JSON object is a function from its keys: a key the object omits is    *)
(* not in its domain.  An Option is a sequence of at most one element.  An *)
(* event carries its timestamp, its type tag, and the position and bounds  *)
(* its type reads (the other of the two is left at zero); button, delta_y  *)
(* and frame_index are read by nothing and are left out, as is the reason  *)
(* of a cursor point.                                                      *)

\* duration_us of a click ring: 300 ms
ClickRingDuration == 300000

\* duration_us of a cursor highlight: 100 ms
CursorHighlightDuration == 100000

\* focus_size: 15% of the screen
FocusSize == 1500

\* points of confidence 80 and more give a focus region and a highlight
HighConfidence == 80

\* the effect settings every field of which takes its serde default
SerdeDefaultEffects == [click_rings |-> TRUE, cursor_highlight |-> TRUE]

\* EffectSettings::default(), derived: both false
DerivedDefaultEffects == [click_rings |-> FALSE, cursor_highlight |-> FALSE]

\* the value of key in the object, dflt if the object omits it
FieldOr(object, key, dflt) ==
    IF key \in DOMAIN object THEN object[key] ELSE dflt

\* CameraSettings deserialized from an object: #[serde(default = ...)] on
\* each field
DeserializeCameraSettings(object) ==
    [min_hold_time_us |->
         FieldOr(object, "min_hold_time_us", DefaultMinHoldTime),
     max_pan_speed |-> FieldOr(object, "max_pan_speed", DefaultMaxPanSpeed),
     dead_zone |-> FieldOr(object, "dead_zone", DefaultDeadZone),
     zoom_strength |-> FieldOr(object, "zoom_strength", DefaultZoomStrength)]

\* EffectSettings deserialized from an object
DeserializeEffectSettings(object) ==
    [click_rings |-> FieldOr(object, "click_rings", TRUE),
     cursor_highlight |-> FieldOr(object, "cursor_highlight", TRUE)]

\* EngineConfig.camera_settings, #[serde(default)]: an omitted field is
\* CameraSettings::default()
ConfigCameraSettings(config_json) ==
    IF "camera_settings" \in DOMAIN config_json
    THEN DeserializeCameraSettings(config_json.camera_settings)
    ELSE DerivedDefaultSettings

\* EngineConfig.effect_settings, #[serde(default)]: an omitted field is
\* EffectSettings::default()
ConfigEffectSettings(config_json) ==
    IF "effect_settings" \in DOMAIN config_json
    THEN DeserializeEffectSettings(config_json.effect_settings)
    ELSE DerivedDefaultEffects

\* serde_json::from_str::<EngineConfig>
DeserializeEngineConfig(config_json) ==
    [capture_mode |-> config_json.capture_mode,
     camera_settings |-> ConfigCameraSettings(config_json),
     effect_settings |-> ConfigEffectSettings(config_json)]

CursorTrackerNew(capture_mode) ==
    [capture_mode |-> capture_mode, last_position |-> <<>>,
     last_timestamp |-> <<>>]

CursorTrackPoint(timestamp, position, state, confidence) ==
    [timestamp |-> timestamp, position |-> position, state |-> state,
     confidence |-> confidence]

\* every event taken for a mouse move
ProcessAsMouseMove(tracker, event) ==
    <<CursorTrackPoint(event.timestamp, event.position, "Visible", 100)>>

\* process_event: the point an event gives, if it gives one
ProcessEvent(tracker, event) ==
    CASE event.type = "MouseMove" ->
             <<CursorTrackPoint(event.timestamp, event.position, "Visible",
                                100)>>
      [] event.type = "MouseClick" ->
             <<CursorTrackPoint(event.timestamp, event.position, "Visible",
                                100)>>
      [] event.type = "FocusChange" ->
             <<CursorTrackPoint(event.timestamp, RectCenter(event.bounds),
                                "Inferred", 80)>>
      [] event.type = "FrameCaptured" ->
             <<CursorTrackPoint(event.timestamp,
                   IF tracker.last_position = <<>> THEN CoordCenter
                   ELSE tracker.last_position[1],
                   "Inferred", 50)>>
      [] event.type = "Scroll" -> <<>>

\* the loop of CursorTracker::process: the tracker and the track after the
\* events
RECURSIVE TrackerLoop(_, _, _)
TrackerLoop(tracker, events, track) ==
    IF events = <<>> THEN [tracker |-> tracker, track |-> track]
    ELSE LET point == ProcessEvent(tracker, Head(events))
         IN  IF point = <<>> THEN TrackerLoop(tracker, Tail(events), track)
             ELSE TrackerLoop(
                      [tracker EXCEPT
                          !.last_position = <<point[1].position>>,
                          !.last_timestamp = <<point[1].timestamp>>],
                      Tail(events), Append(track, point[1]))

\* the batch processed by a tracker that retained nothing
ProcessFromFresh(tracker, events) ==
    TrackerLoop(CursorTrackerNew(tracker.capture_mode), events, <<>>)

CursorTrackerProcess(tracker, events) == TrackerLoop(tracker, events, <<>>)

\* the larger and the smaller of two numbers
Max(a, b) == IF a >= b THEN a ELSE b

FocusRegion(timestamp, bounds, importance) ==
    [timestamp |-> timestamp, bounds |-> bounds, importance |-> importance]

\* cursor_to_focus_region: a region of focus_size around the position
CursorToFocusRegion(point) ==
    FocusRegion(point.timestamp,
        [x |-> Max(point.position.x - FocusSize \div 2, 0),
         y |-> Max(point.position.y - FocusSize \div 2, 0),
         width |-> Min(FocusSize, 10000 - point.position.x + FocusSize \div 2),
         height |->
             Min(FocusSize, 10000 - point.position.y + FocusSize \div 2)],
        point.confidence)

\* the regions of the FocusChange events, in event order
FocusChangeRegions(events) ==
    LET changes == SelectSeq(events, LAMBDA e : e.type = "FocusChange")
    IN  [i \in DOMAIN changes |->
            FocusRegion(changes[i].timestamp, changes[i].bounds, 100)]

\* the regions of the high-confidence cursor points, in track order
CursorRegions(cursor_track) ==
    LET high == SelectSeq(cursor_track,
                          LAMBDA p : p.confidence >= HighConfidence)
    IN  [i \in DOMAIN high |-> CursorToFocusRegion(high[i])]

\* the regions of the FocusChange events alone
AnalyzeFocusChanges(events, cursor_track) == FocusChangeRegions(events)

\* FocusAnalyzer::analyze: the regions it returns and retains
FocusAnalyze(events, cursor_track) ==
    FocusChangeRegions(events) \o CursorRegions(cursor_track)

Effect(timestamp, duration_us, effect_type, position) ==
    [timestamp |-> timestamp, duration_us |-> duration_us,
     effect_type |-> effect_type, position |-> position]

\* the click rings of the MouseClick events, in event order
ClickRings(events) ==
    LET clicks == SelectSeq(events, LAMBDA e : e.type = "MouseClick")
    IN  [i \in DOMAIN clicks |->
            Effect(clicks[i].timestamp, ClickRingDuration, "ClickRing",
                   clicks[i].position)]

\* the highlights of the high-confidence cursor points, in track order
CursorHighlights(cursor_track) ==
    LET high == SelectSeq(cursor_track,
                          LAMBDA p : p.confidence >= HighConfidence)
    IN  [i \in DOMAIN high |->
            Effect(high[i].timestamp, CursorHighlightDuration,
                   "CursorHighlight", high[i].position)]

\* the highlights made only where the click rings are on as well
GenerateEffectsNested(settings, events, cursor_track) ==
    IF settings.click_rings
    THEN ClickRings(events)
             \o (IF settings.cursor_highlight
                 THEN CursorHighlights(cursor_track) ELSE <<>>)
    ELSE <<>>

\* EffectGenerator::generate
GenerateEffects(settings, events, cursor_track) ==
    (IF settings.click_rings THEN ClickRings(events) ELSE <<>>)
        \o (IF settings.cursor_highlight THEN CursorHighlights(cursor_track)
            ELSE <<>>)

\* Engine::new on a configuration that deserializes
EngineNew(config_json) ==
    LET parsed == DeserializeEngineConfig(config_json)
    IN  [cursor_tracker |-> CursorTrackerNew(parsed.capture_mode),
         focus_analyzer |-> [active_regions |-> <<>>],
         camera_engine |-> CameraEngineNew(parsed.camera_settings),
         effect_generator |-> [settings |-> parsed.effect_settings]]

\* Engine::process_signals on a batch that deserializes: whether it
\* panicked, the engine it leaves and the AnalysisResult it returns
ProcessSignals(e, overflow_checks, events) ==
    LET tracked == CursorTrackerProcess(e.cursor_tracker, events)
        cursor_track == tracked.track
        focus_regions == FocusAnalyze(events, cursor_track)
        generated == GenerateKeyframes(e.camera_engine, overflow_checks,
                                       cursor_track, focus_regions)
        effects == GenerateEffects(e.effect_generator.settings, events,
                                   cursor_track)
        before_camera ==
            [e EXCEPT !.cursor_tracker = tracked.tracker,
                      !.focus_analyzer.active_regions = focus_regions]
    IN  IF generated.panicked
        THEN [panicked |-> TRUE, engine |-> before_camera,
              result |-> [cursor_track |-> cursor_track,
                          focus_regions |-> focus_regions,
                          camera_keyframes |-> <<>>,
                          effect_tracks |-> [effects |-> <<>>]]]
        ELSE [panicked |-> FALSE,
              engine |->
                  [before_camera EXCEPT
                      !.camera_engine =
                          StoreKeyframes(e.camera_engine,
                                         generated.keyframes)],
              result |-> [cursor_track |-> cursor_track,
                          focus_regions |-> focus_regions,
                          camera_keyframes |-> generated.keyframes,
                          effect_tracks |-> [effects |-> effects]]]

\* the tags of EventType, #[serde(tag = "type")]
EventTypes == {"MouseMove", "MouseClick", "FocusChange", "Scroll",
               "FrameCaptured"}

\* a payload: whether its text is well-formed JSON of the shape of a
\* SignalBatch, and the events it then carries, each with its type tag
SignalsJson(well_formed, events) ==
    [well_formed |-> well_formed, events |-> events]

\* the events of known type decoded, the others skipped
DeserializeKnownEvents(signals_json) ==
    IF signals_json.well_formed
    THEN <<SelectSeq(signals_json.events, LAMBDA e : e.type \in EventTypes)>>
    ELSE <<>>

\* serde_json::from_str::<SignalBatch>: the events, as <<events>>, or <<>>
\* for an Err: the text is malformed or an event carries a tag that is no
\* variant of EventType
DeserializeSignalBatch(signals_json) ==
    IF /\ signals_json.well_formed
       /\ \A i \in DOMAIN signals_json.events :
              signals_json.events[i].type \in EventTypes
    THEN <<signals_json.events>>
    ELSE <<>>

\* the AnalysisResult of no event
EmptyResult ==
    [cursor_track |-> <<>>, focus_regions |-> <<>>, camera_keyframes |-> <<>>,
     effect_tracks |-> [effects |-> <<>>]]

\* Engine::process_signals on a payload: whether it returned an Err,
\* whether it panicked, the events it decoded, the engine it leaves and the
\* AnalysisResult it returns
EngineProcessSignals(e, overflow_checks, signals_json) ==
    LET signals == DeserializeSignalBatch(signals_json)
    IN  IF signals = <<>>
        THEN [failed |-> TRUE, panicked |-> FALSE, events |-> <<>>,
              engine |-> e, result |-> EmptyResult]
        ELSE LET p == ProcessSignals(e, overflow_checks, signals[1])
             IN  [failed |-> FALSE, panicked |-> p.panicked,
                  events |-> signals[1], engine |-> p.engine,
                  result |-> p.result]

\* Engine::get_viewport_at
EngineGetViewportAt(e, timestamp_us) ==
    GetViewportAt(e.camera_engine.keyframes, timestamp_us)

---------------------------------------------------------------------------
(* The remapper as the host drives it: built from a configuration (or by   *)
(* identity), then queried, one call at a time.  call holds the query made *)
(* and its result until the host takes it; config is the configuration the *)
(* host built the first remapper from, json the serialized configuration   *)
(* it built the current one from, if it did.                               *)

\* speeds a configuration may give, in quarter units: 0.0 and 5.0 lie outside
\* the clamp range
RawSpeeds == {0, 6, 20}

Times == 0 .. MaxTime

\* {start_us, end_us} with start <= end
RangeConfigs ==
    {c \in [start_us : Times, end_us : Times] : c.start_us <= c.end_us}

RampConfigs ==
    {[start_us |-> c.start_us, end_us |-> c.end_us, speed |-> v] :
        c \in RangeConfigs, v \in RawSpeeds}

TimeRemapperConfig(cuts, speed_ramps, in_point_us, out_point_us) ==
    [cuts |-> cuts, speed_ramps |-> speed_ramps,
     in_point_us |-> in_point_us, out_point_us |-> out_point_us]

NoCall == [op |-> "none", arg |-> 0, ret |-> 0]

\* the host holds no serialized configuration (it holds <<output>> once it
\* has kept one)
NoJson == <<>>

\* held: the keyframes the engine held when the call was made
NoCameraCall ==
    [op |-> "none", cursor_track |-> <<>>, focus_regions |-> <<>>,
     timestamp |-> 0, held |-> <<>>, panicked |-> FALSE, ret |-> <<>>]

\* the host drives no camera engine: a fresh one is left alone
NoEngine ==
    /\ camera = CameraEngineNew(SerdeDefaultSettings)
    /\ checked_build = FALSE
    /\ generation = 0
    /\ camera_call = NoCameraCall

\* WasmTimeRemapper::new(config_json), for every payload the host may send
\* within the bounds
InitNew ==
    /\ \E nc \in 0 .. MaxCuts, nr \in 0 .. MaxRamps :
          /\ nc + nr <= MaxIntervals
          /\ \E cs \in [1 .. nc -> RangeConfigs],
                rs \in [1 .. nr -> RampConfigs],
                p \in RangeConfigs :
                config = TimeRemapperConfig(cs, rs, p.start_us, p.end_us)
    /\ remapper = WasmNew(config)
    /\ ctor = "new"
    /\ json = NoJson
    /\ call = NoCall

\* WasmTimeRemapper::identity(in_point_us, out_point_us)
InitIdentity ==
    /\ \E p \in RangeConfigs :
          config = TimeRemapperConfig(<<>>, <<>>, p.start_us, p.end_us)
    /\ remapper = Identity(config.in_point_us, config.out_point_us)
    /\ ctor = "identity"
    /\ json = NoJson
    /\ call = NoCall

\* the payload of no call
NoSignals == SignalsJson(TRUE, <<>>)

\* tracker: the cursor tracker as the call found it; signals_json: the
\* payload given; failed: the call returned an Err
NoEngineCall ==
    [op |-> "none", signals_json |-> NoSignals, events |-> <<>>,
     timestamp |-> 0, tracker |-> CursorTrackerNew("Tab"), failed |-> FALSE,
     panicked |-> FALSE, ret |-> <<>>]

\* the host drives no Engine: a fresh one is left alone
NoFacade ==
    /\ engine_config = [capture_mode |-> "Tab"]
    /\ wasm_engine = EngineNew(engine_config)
    /\ batches = 0
    /\ engine_call = NoEngineCall

\* the host drives no remapper: an identity one is left alone
NoRemapper ==
    /\ config = TimeRemapperConfig(<<>>, <<>>, 0, 0)
    /\ remapper = Identity(0, 0)
    /\ ctor = "identity"
    /\ json = NoJson
    /\ call = NoCall

Init == (InitNew \/ InitIdentity) /\ NoEngine /\ NoFacade

\* export timestamps queried: up to one past the export duration
ExportTimes(r) == 0 .. (ExportDuration(r) + 1)

\* source timestamps queried
SourceTimes == 0 .. (MaxTime + 1)

CallToSourceTime ==
    /\ call.op = "none"
    /\ \E e \in ExportTimes(remapper) :
          call' = [op |-> "to_source_time", arg |-> e,
                   ret |-> ToSourceTime(remapper, e)]
    /\ UNCHANGED <<remapper, config, ctor, json>>
    /\ UNCHANGED cvars
    /\ UNCHANGED evars

CallExportDuration ==
    /\ call.op = "none"
    /\ call' = [op |-> "export_duration", arg |-> 0,
                ret |-> ExportDuration(remapper)]
    /\ UNCHANGED <<remapper, config, ctor, json>>
    /\ UNCHANGED cvars
    /\ UNCHANGED evars

CallIsCut ==
    /\ call.op = "none"
    /\ \E s \in SourceTimes :
          call' = [op |-> "is_cut", arg |-> s, ret |-> IsCut(remapper, s)]
    /\ UNCHANGED <<remapper, config, ctor, json>>
    /\ UNCHANGED cvars
    /\ UNCHANGED evars

CallSpeedAt ==
    /\ call.op = "none"
    /\ \E s \in SourceTimes :
          call' = [op |-> "speed_at", arg |-> s, ret |-> SpeedAt(remapper, s)]
    /\ UNCHANGED <<remapper, config, ctor, json>>
    /\ UNCHANGED cvars
    /\ UNCHANGED evars

CallToJson ==
    /\ call.op = "none"
    /\ call' = [op |-> "to_json", arg |-> 0, ret |-> ToJson(remapper)]
    /\ UNCHANGED <<remapper, config, ctor, json>>
    /\ UNCHANGED cvars
    /\ UNCHANGED evars

\* the host takes the result of the call
Return ==
    /\ call.op /= "none"
    /\ call' = NoCall
    /\ UNCHANGED <<remapper, config, ctor, json>>
    /\ UNCHANGED cvars
    /\ UNCHANGED evars

\* the host keeps the to_json output and builds a remapper from it with
\* WasmTimeRemapper::new
Rebuild ==
    /\ call.op = "to_json"
    /\ json = NoJson
    /\ json' = <<call.ret>>
    /\ remapper' = WasmNew(call.ret)
    /\ ctor' = "new"
    /\ call' = NoCall
    /\ UNCHANGED config
    /\ UNCHANGED cvars
    /\ UNCHANGED evars

Next ==
    \/ CallToSourceTime
    \/ CallExportDuration
    \/ CallIsCut
    \/ CallSpeedAt
    \/ CallToJson
    \/ Return
    \/ Rebuild

Spec == Init /\ [][Next]_vars

---------------------------------------------------------------------------
(* The camera engine as its owner drives it: built with its settings, then *)
(* asked for keyframes and for viewports, one call at a time.  camera_call *)
(* holds the call made, its inputs and its result until the caller takes   *)
(* it.  checked_build is the build: with overflow checks an unsigned       *)
(* subtraction that underflows panics, without them it wraps.  A panic     *)
(* ends the engine's run.                                                  *)

CursorTimestamps == {0, 500000, 1000000}

\* (0.2, 0.2), far from the center, and (0.52, 0.5), near it
CursorPositions ==
    {NormalizedCoord(2000, 2000), NormalizedCoord(5200, 5000)}

\* state and confidence of a point
CursorKinds ==
    {<<"Visible", 100>>, <<"Inferred", 70>>, <<"Inferred", 50>>,
     <<"Hidden", 100>>}

CursorTrackPoints ==
    {[timestamp |-> t, position |-> p, state |-> k[1], confidence |-> k[2]] :
        t \in CursorTimestamps, p \in CursorPositions, k \in CursorKinds}

\* NormalizedRect {x, y, width, height}: a small one, a wide one, an empty one
RegionBounds ==
    {[x |-> 4250, y |-> 4250, width |-> 1500, height |-> 1500],
     [x |-> 1000, y |-> 1000, width |-> 8000, height |-> 4000],
     [x |-> 8000, y |-> 8000, width |-> 0, height |-> 0]}

FocusRegions ==
    {[timestamp |-> t, bounds |-> b, importance |-> i] :
        t \in {0, 1000000}, b \in RegionBounds, i \in {80, 50}}

\* the sequences over S of length at most n
SeqUpTo(S, n) == UNION {[1 .. k -> S] : k \in 0 .. n}

\* timestamps get_viewport_at is asked for
QueryTimestamps == {0, 250000, 500000, 750000, 1000000, 1250000}

\* CameraEngine::new(settings), in either build
CameraInit ==
    /\ \E settings \in {SerdeDefaultSettings, DerivedDefaultSettings} :
          camera = CameraEngineNew(settings)
    /\ checked_build \in BOOLEAN
    /\ generation = 0
    /\ camera_call = NoCameraCall
    /\ NoRemapper
    /\ NoFacade

\* a call of generate_keyframes with a track of tracks and a list of
\* region_lists, the engine having served fewer than limit such calls
GenerateKeyframesCall(tracks, region_lists, limit) ==
    /\ camera_call.op = "none"
    /\ generation < limit
    /\ \E cursor_track \in tracks, focus_regions \in region_lists :
          LET g == GenerateKeyframes(camera, checked_build, cursor_track,
                                     focus_regions)
          IN  /\ camera_call' =
                     [op |-> "generate_keyframes",
                      cursor_track |-> cursor_track,
                      focus_regions |-> focus_regions,
                      timestamp |-> 0, held |-> camera.keyframes,
                      panicked |-> g.panicked, ret |-> g.keyframes]
              /\ camera' = IF g.panicked THEN camera
                            ELSE StoreKeyframes(camera, g.keyframes)
    /\ generation' = generation + 1
    /\ UNCHANGED checked_build
    /\ UNCHANGED rvars
    /\ UNCHANGED evars

CallGenerateKeyframes ==
    GenerateKeyframesCall(SeqUpTo(CursorTrackPoints, MaxPoints),
                          SeqUpTo(FocusRegions, MaxRegions), MaxGenerations)

CallGetViewportAt ==
    /\ camera_call.op = "none"
    /\ \E t \in QueryTimestamps :
          camera_call' =
              [op |-> "get_viewport_at", cursor_track |-> <<>>,
               focus_regions |-> <<>>, timestamp |-> t,
               held |-> camera.keyframes, panicked |-> FALSE,
               ret |-> GetViewportAt(camera.keyframes, t)]
    /\ UNCHANGED <<camera, checked_build, generation>>
    /\ UNCHANGED rvars
    /\ UNCHANGED evars

\* the caller takes the result of a call that returned
CameraReturn ==
    /\ camera_call.op /= "none"
    /\ ~camera_call.panicked
    /\ camera_call' = NoCameraCall
    /\ UNCHANGED <<camera, checked_build, generation>>
    /\ UNCHANGED rvars
    /\ UNCHANGED evars

CameraNext ==
    \/ CallGenerateKeyframes
    \/ CallGetViewportAt
    \/ CameraReturn

CameraSpec == CameraInit /\ [][CameraNext]_vars

---------------------------------------------------------------------------
(* The camera engine over several generate_keyframes calls, on shorter     *)
(* inputs.                                                                 *)

\* confident and unconfident points at 0.5 s and 1 s
HistoryTrackPoints ==
    {p \in CursorTrackPoints :
        /\ p.timestamp > 0
        /\ <<p.state, p.confidence>> \in
               {<<"Visible", 100>>, <<"Inferred", 50>>}}

\* the small region, important, at 0 s and at 1 s
HistoryRegions ==
    {r \in FocusRegions : r.bounds.width = 1500 /\ r.importance = 80}

HistoryGenerateKeyframes ==
    GenerateKeyframesCall(SeqUpTo(HistoryTrackPoints, MaxPoints),
                          SeqUpTo(HistoryRegions, 1), MaxHistory)

HistoryNext ==
    \/ HistoryGenerateKeyframes
    \/ CallGetViewportAt
    \/ CameraReturn

HistorySpec == CameraInit /\ [][HistoryNext]_vars

---------------------------------------------------------------------------
(* The Engine as its host drives it: built from a configuration, then      *)
(* given batches of events and asked for viewports, one call at a time.    *)
(* Every configuration here deserializes.                                  *)

\* the values a configuration gives the camera settings it names
GivenCameraSettings ==
    [min_hold_time_us |-> 1000000, max_pan_speed |-> 10000,
     dead_zone |-> 1000, zoom_strength |-> 20000]

\* camera_settings objects: any subset of the four fields
CameraSettingsObjects ==
    {[k \in keys |-> GivenCameraSettings[k]] :
        keys \in SUBSET DOMAIN GivenCameraSettings}

\* effect_settings objects: any subset of the two fields
EffectSettingsObjects ==
    UNION {[keys -> BOOLEAN] :
              keys \in SUBSET {"click_rings", "cursor_highlight"}}

\* configurations: capture_mode alone, with camera_settings, with
\* effect_settings, and with both (all four camera settings given)
EngineConfigs ==
    {[capture_mode |-> "Tab"]}
        \cup {[capture_mode |-> "Tab", camera_settings |-> c] :
                  c \in CameraSettingsObjects}
        \cup {[capture_mode |-> "Tab", effect_settings |-> f] :
                  f \in EffectSettingsObjects}
        \cup {[capture_mode |-> "Tab",
               camera_settings |-> GivenCameraSettings,
               effect_settings |-> f] : f \in EffectSettingsObjects}

NoPosition == [x |-> 0, y |-> 0]

NoBounds == [x |-> 0, y |-> 0, width |-> 0, height |-> 0]

InputEvent(timestamp, type, position, bounds) ==
    [timestamp |-> timestamp, type |-> type, position |-> position,
     bounds |-> bounds]

\* a move to (0.2, 0.2), a click at (0.8, 0.5), a focus change to a region
\* centered at (0.5, 0.3), a scroll and a captured frame, at 0.5 s and 1 s
InputEvents ==
    UNION {{InputEvent(t, "MouseMove", NormalizedCoord(2000, 2000), NoBounds),
            InputEvent(t, "MouseClick", NormalizedCoord(8000, 5000), NoBounds),
            InputEvent(t, "FocusChange", NoPosition,
                [x |-> 1000, y |-> 1000, width |-> 8000, height |-> 4000]),
            InputEvent(t, "Scroll", NoPosition, NoBounds),
            InputEvent(t, "FrameCaptured", NoPosition, NoBounds)} :
           t \in {500000, 1000000}}

\* timestamps Engine::get_viewport_at is asked for
EngineQueryTimestamps == {0, 750000, 1000000}

\* Engine::new(config_json), in either build
EngineInit ==
    /\ engine_config \in EngineConfigs
    /\ wasm_engine = EngineNew(engine_config)
    /\ batches = 0
    /\ engine_call = NoEngineCall
    /\ checked_build \in BOOLEAN
    /\ camera = CameraEngineNew(SerdeDefaultSettings)
    /\ generation = 0
    /\ camera_call = NoCameraCall
    /\ NoRemapper

\* an event of a type the engine does not know, at 1 s
UnknownEvent == InputEvent(1000000, "KeyPress", NoPosition, NoBounds)

\* the payloads of process_signals: the batches of known events, the
\* batches that hold an event of unknown type, and a malformed text
SignalPayloads ==
    {SignalsJson(TRUE, events) :
        events \in SeqUpTo(InputEvents \cup {UnknownEvent}, MaxEvents)}
        \cup {SignalsJson(FALSE, <<>>)}

CallProcessSignals ==
    /\ engine_call.op = "none"
    /\ batches < MaxBatches
    /\ \E signals_json \in SignalPayloads :
          LET p == EngineProcessSignals(wasm_engine, checked_build,
                                        signals_json)
          IN  /\ engine_call' =
                     [op |-> "process_signals",
                      signals_json |-> signals_json, events |-> p.events,
                      timestamp |-> 0,
                      tracker |-> wasm_engine.cursor_tracker,
                      failed |-> p.failed,
                      panicked |-> p.panicked, ret |-> p.result]
              /\ wasm_engine' = p.engine
    /\ batches' = batches + 1
    /\ UNCHANGED engine_config
    /\ UNCHANGED rvars
    /\ UNCHANGED cvars

CallEngineGetViewportAt ==
    /\ engine_call.op = "none"
    /\ \E t \in EngineQueryTimestamps :
          engine_call' =
              [op |-> "get_viewport_at", signals_json |-> NoSignals,
               events |-> <<>>, timestamp |-> t,
               tracker |-> wasm_engine.cursor_tracker, failed |-> FALSE,
               panicked |-> FALSE,
               ret |-> EngineGetViewportAt(wasm_engine, t)]
    /\ UNCHANGED <<engine_config, wasm_engine, batches>>
    /\ UNCHANGED rvars
    /\ UNCHANGED cvars

\* the host takes the result of a call that returned
EngineReturn ==
    /\ engine_call.op /= "none"
    /\ ~engine_call.panicked
    /\ engine_call' = NoEngineCall
    /\ UNCHANGED <<engine_config, wasm_engine, batches>>
    /\ UNCHANGED rvars
    /\ UNCHANGED cvars

EngineNext ==
    \/ CallProcessSignals
    \/ CallEngineGetViewportAt
    \/ EngineReturn

EngineSpec == EngineInit /\ [][EngineNext]_vars

---------------------------------------------------------------------------
(* Properties of the time remapper *)

Overlap(a, b) == ~(a.end <= b.start \/ b.end <= a.start)

\* no two elements of the sequence have overlapping ranges
NonOverlapping(s) ==
    \A i \in DOMAIN s : \A j \in DOMAIN s :
        i < j => ~Overlap(RangeOf(s[i]), RangeOf(s[j]))

\* what the host is expected to supply
HostNormalized(r) ==
    /\ r.in_point <= r.out_point
    /\ NonOverlapping(r.cuts)
    /\ NonOverlapping(r.speed_ramps)
    /\ \A i \in DOMAIN r.speed_ramps :
          r.speed_ramps[i].speed \in SpeedMin .. SpeedMax

\* C1: with non-overlapping cuts and ramps, every export time up to the one
\* queried (itself at most export_duration) maps to a source time that is not
\* greater than the result of the query: to_source_time is monotonic
C1_Monotonic ==
    (/\ call.op = "to_source_time"
     /\ HostNormalized(remapper)
     /\ call.arg <= ExportDuration(remapper))
    => \A e1 \in 0 .. call.arg : ToSourceTime(remapper, e1) <= call.ret

\* a query that lands behind a cut under two ramps, the export time just
\* before it mapping strictly below
C1_Witness ==
    /\ call.op = "to_source_time"
    /\ HostNormalized(remapper)
    /\ Len(remapper.cuts) > 0 /\ Len(remapper.speed_ramps) = 2
    /\ call.arg > 1 /\ call.arg <= ExportDuration(remapper)
    /\ \E i \in DOMAIN remapper.cuts :
          /\ remapper.cuts[i].start < remapper.cuts[i].end
          /\ remapper.in_point < remapper.cuts[i].start
          /\ remapper.cuts[i].end <= call.ret
    /\ call.ret < remapper.out_point
    /\ ToSourceTime(remapper, call.arg - 1) < call.ret

\* a cut that intersects [in_point, out_point)
Relevant(r, cut) == cut.start < r.out_point /\ cut.end > r.in_point

\* C2: every export time in [0, export_duration] maps to a source time that
\* lies in no cut intersecting [in_point, out_point); stated for the results
\* that lie before out_point, the saturation value
C2_CutExclusion ==
    (/\ call.op = "to_source_time"
     /\ HostNormalized(remapper)
     /\ call.arg <= ExportDuration(remapper)
     /\ call.ret < remapper.out_point)
    => ~\E i \in DOMAIN remapper.cuts :
          /\ Relevant(remapper, remapper.cuts[i])
          /\ Contains(remapper.cuts[i], call.ret)

\* C3: every export time at or past export_duration maps to out_point
C3_SaturatesAtOutPoint ==
    (/\ call.op = "to_source_time"
     /\ remapper.in_point <= remapper.out_point
     /\ call.arg >= ExportDuration(remapper))
    => call.ret = remapper.out_point

\* the first source position at or after t that lies in no cut; no cut
\* reaches past MaxTime
FirstNonCut(r, t) ==
    LET free == {s \in t .. (MaxTime + 1) :
                    \A i \in DOMAIN r.cuts :
                        ~(r.cuts[i].start <= s /\ s < r.cuts[i].end)}
    IN  CHOOSE s \in free : \A u \in free : s <= u

\* C4: to_source_time(0) is the first position at or after in_point in no
\* cut, clamped to out_point; it is in_point when no cut contains in_point
C4_StartSkipsCuts ==
    (call.op = "to_source_time" /\ call.arg = 0)
    => /\ call.ret = Min(FirstNonCut(remapper, remapper.in_point),
                         remapper.out_point)
       /\ (~\E i \in DOMAIN remapper.cuts :
               Contains(remapper.cuts[i], remapper.in_point))
          => call.ret = remapper.in_point

\* two cuts are skipped at in_point, the second reached only through the
\* first, and the result lies before out_point
C4_Witness ==
    /\ call.op = "to_source_time" /\ call.arg = 0
    /\ Len(remapper.cuts) = 2
    /\ Contains(remapper.cuts[1], remapper.in_point)
    /\ ~Contains(remapper.cuts[2], remapper.in_point)
    /\ Contains(remapper.cuts[2], remapper.cuts[1].end)
    /\ call.ret = remapper.cuts[2].end
    /\ call.ret < remapper.out_point

\* C5: identity(in, out) is new with no cuts and no ramps: the export
\* duration is out - in, export time e maps to in + e, nothing is cut and the
\* speed is 1.0 everywhere
C5_Identity ==
    ctor = "identity"
    => /\ remapper = TimeRemapperNew(<<>>, <<>>, config.in_point_us,
                                     config.out_point_us)
       /\ call.op = "export_duration"
          => call.ret = config.out_point_us - config.in_point_us
       /\ (call.op = "to_source_time"
           /\ call.arg <= config.out_point_us - config.in_point_us)
          => call.ret = config.in_point_us + call.arg
       /\ call.op = "is_cut" => call.ret = FALSE
       /\ call.op = "speed_at" => call.ret = SpeedUnity

\* a trimmed identity remapper queried strictly inside its range
C5_Witness ==
    /\ ctor = "identity"
    /\ config.in_point_us > 0
    /\ call.op = "to_source_time"
    /\ call.arg > 0
    /\ call.arg < config.out_point_us - config.in_point_us

\* the points that delimit the segments of [in_point, out_point]
SegmentPoints(r) ==
    {r.in_point, r.out_point} \cup
    {t \in (r.in_point + 1) .. (r.out_point - 1) :
        \/ \E i \in DOMAIN r.cuts :
              t = r.cuts[i].start \/ t = r.cuts[i].end
        \/ \E i \in DOMAIN r.speed_ramps :
              t = r.speed_ramps[i].range.start
              \/ t = r.speed_ramps[i].range.end}

\* num / den rounded half away from zero, num >= 0, den > 0
RoundHalfAway(num, den) == (2 * num + den) \div (2 * den)

\* what the segment [a, b) adds to the export: nothing inside a cut, else
\* its length over its speed, rounded (a speed q is q / 4)
SegmentExport(r, a, b) ==
    IF \E i \in DOMAIN r.cuts : r.cuts[i].start <= a /\ a < r.cuts[i].end
    THEN 0
    ELSE LET over == {i \in DOMAIN r.speed_ramps :
                         /\ r.speed_ramps[i].range.start <= a
                         /\ a < r.speed_ramps[i].range.end}
             q == IF over = {} THEN SpeedUnity
                  ELSE r.speed_ramps[CHOOSE i \in over : TRUE].speed
         IN  RoundHalfAway(4 * (b - a), q)

\* the sum of SegmentExport over the segments from a on
RECURSIVE SegmentSum(_, _)
SegmentSum(r, a) ==
    LET later == {t \in SegmentPoints(r) : t > a}
    IN  IF later = {} THEN 0
        ELSE LET b == CHOOSE t \in later : \A u \in later : t <= u
             IN  SegmentExport(r, a, b) + SegmentSum(r, b)

\* C6: with non-overlapping cuts and ramps, export_duration is the sum of the
\* segments' export lengths
C6_SegmentSum ==
    (call.op = "export_duration" /\ HostNormalized(remapper))
    => call.ret = SegmentSum(remapper, remapper.in_point)

\* a cut between two ramps of different speeds, all inside the trimmed range,
\* and an export duration that differs from the trimmed source length
C6_Witness ==
    /\ call.op = "export_duration"
    /\ HostNormalized(remapper)
    /\ Len(remapper.cuts) = 1 /\ Len(remapper.speed_ramps) = 2
    /\ remapper.speed_ramps[1].speed /= remapper.speed_ramps[2].speed
    /\ remapper.in_point <= remapper.speed_ramps[1].range.start
    /\ remapper.speed_ramps[1].range.start < remapper.speed_ramps[1].range.end
    /\ remapper.speed_ramps[1].range.end <= remapper.cuts[1].start
    /\ remapper.cuts[1].start < remapper.cuts[1].end
    /\ remapper.cuts[1].end <= remapper.speed_ramps[2].range.start
    /\ remapper.speed_ramps[2].range.start < remapper.speed_ramps[2].range.end
    /\ remapper.speed_ramps[2].range.end <= remapper.out_point
    /\ call.ret /= remapper.out_point - remapper.in_point

\* C7: is_cut(s) is true exactly when a stored cut has start <= s < end,
\* wherever s lies with respect to in_point and out_point
C7_IsCut ==
    call.op = "is_cut"
    => (call.ret <=>
          \E i \in DOMAIN remapper.cuts :
              remapper.cuts[i].start <= call.arg
              /\ call.arg < remapper.cuts[i].end)

\* a timestamp behind out_point is found cut: it is the last one of a cut
C7_Witness ==
    /\ call.op = "is_cut"
    /\ call.ret = TRUE
    /\ call.arg > remapper.out_point
    /\ \E i \in DOMAIN remapper.cuts : remapper.cuts[i].end = call.arg + 1

\* C8: speed_at(s) is the speed of the first ramp, in the stored start-sorted
\* order, whose half-open range contains s, and 1.0 when there is none
C8_SpeedAt ==
    /\ \A i \in DOMAIN remapper.speed_ramps :
          \A j \in DOMAIN remapper.speed_ramps :
              i < j => remapper.speed_ramps[i].range.start
                         <= remapper.speed_ramps[j].range.start
    /\ call.op = "speed_at"
       => LET over == {i \in DOMAIN remapper.speed_ramps :
                          /\ remapper.speed_ramps[i].range.start <= call.arg
                          /\ call.arg < remapper.speed_ramps[i].range.end}
          IN  IF over = {} THEN call.ret = SpeedUnity
              ELSE \E i \in over :
                      /\ \A j \in over : i <= j
                      /\ call.ret = remapper.speed_ramps[i].speed

\* two ramps of different speeds contain the timestamp
C8_Witness ==
    /\ call.op = "speed_at"
    /\ Len(remapper.speed_ramps) = 2
    /\ Contains(remapper.speed_ramps[1].range, call.arg)
    /\ Contains(remapper.speed_ramps[2].range, call.arg)
    /\ remapper.speed_ramps[1].range.start < remapper.speed_ramps[2].range.start
    /\ remapper.speed_ramps[1].speed /= remapper.speed_ramps[2].speed
    /\ call.ret = remapper.speed_ramps[1].speed

\* the sequences hold the same elements, each as often
SameElements(s, t) ==
    /\ Len(s) = Len(t)
    /\ \A i \in DOMAIN s :
          Cardinality({k \in DOMAIN s : s[k] = s[i]})
            = Cardinality({k \in DOMAIN t : t[k] = s[i]})

\* a sequence of {start_us, ..} records in non-decreasing start order
SortedByStartUs(s) ==
    \A i \in DOMAIN s : \A k \in DOMAIN s :
        i < k => s[i].start_us <= s[k].start_us

\* a configured ramp with its speed brought into [0.25, 4.0]
ClampedRamp(c) ==
    [c EXCEPT !.speed = IF c.speed < SpeedMin THEN SpeedMin
                        ELSE IF c.speed > SpeedMax THEN SpeedMax
                        ELSE c.speed]

\* j is cfg normalized: its cuts and ramps sorted by start, the speeds clamped
NormalizedFrom(j, cfg) ==
    /\ SortedByStartUs(j.cuts)
    /\ SameElements(j.cuts, cfg.cuts)
    /\ SortedByStartUs(j.speed_ramps)
    /\ SameElements(j.speed_ramps,
                    [i \in DOMAIN cfg.speed_ramps |->
                        ClampedRamp(cfg.speed_ramps[i])])
    /\ j.in_point_us = cfg.in_point_us
    /\ j.out_point_us = cfg.out_point_us

\* C9: the remapper holds its cuts and its ramps sorted by start, every speed
\* in [0.25, 4.0]; to_json returns the configuration normalized; a remapper
\* built from a to_json output serializes to that same output
C9_NormalizedRoundTrip ==
    /\ \A i \in DOMAIN remapper.cuts : \A k \in DOMAIN remapper.cuts :
          i < k => remapper.cuts[i].start <= remapper.cuts[k].start
    /\ \A i \in DOMAIN remapper.speed_ramps :
          /\ remapper.speed_ramps[i].speed >= SpeedMin
          /\ remapper.speed_ramps[i].speed <= SpeedMax
          /\ \A k \in DOMAIN remapper.speed_ramps :
                i < k => remapper.speed_ramps[i].range.start
                           <= remapper.speed_ramps[k].range.start
    /\ call.op = "to_json" => NormalizedFrom(call.ret, config)
    /\ (call.op = "to_json" /\ json /= NoJson) => call.ret = json[1]

\* the remapper built from a to_json output is serialized again; the
\* configuration at the origin was unsorted, with ties among the starts, and
\* held speeds outside the clamp range
C9_Witness ==
    /\ call.op = "to_json"
    /\ json /= NoJson
    /\ Len(config.cuts) = 2
    /\ config.cuts[1].start_us > config.cuts[2].start_us
    /\ Len(config.speed_ramps) = 1
    /\ config.speed_ramps[1].speed > SpeedMax
    /\ call.ret /= config


---------------------------------------------------------------------------
(* Properties of the camera engine *)

IsNonDecreasing(kfs) ==
    \A i \in 1 .. Len(kfs) - 1 : kfs[i].timestamp <= kfs[i + 1].timestamp

\* the keyframes of a call as generate_keyframes holds them before its sort
EmittedKeyframes(c) ==
    FocusLoop(camera.settings, c.focus_regions,
        CursorLoop(camera.settings, checked_build, c.cursor_track,
            SeedKeyframes(c.cursor_track, c.focus_regions),
            FirstLastKeyframeTs(camera)).keyframes)

\* a generate_keyframes call that returned gave keyframes in non-decreasing
\* timestamp order and stored them, and the stored keyframes are in that
\* order at all times
OrderedWhenReturned ==
    /\ IsNonDecreasing(camera.keyframes)
    /\ (camera_call.op = "generate_keyframes" /\ ~camera_call.panicked) =>
           /\ IsNonDecreasing(camera_call.ret)
           /\ camera.keyframes = camera_call.ret

\* C10: for every cursor track and every list of focus regions, in any
\* order, generate_keyframes returns a sequence of keyframes whose
\* timestamps are non-decreasing, and the engine stores that sequence
C10_KeyframeOrder ==
    camera_call.op = "generate_keyframes" =>
        /\ ~camera_call.panicked
        /\ IsNonDecreasing(camera_call.ret)
        /\ camera.keyframes = camera_call.ret
        /\ IsNonDecreasing(camera.keyframes)

\* the keyframes of a call after the sort and before the smoothing pass
SortedKeyframes(c) == SortByTimestamp(EmittedKeyframes(c))

\* the center of keyframe i lies within the distance the pan speed allows
\* from the center of keyframe i - 1, to within one unit (0.0001): the
\* clamped center is a rounded value, here as in f32
WithinPanSpeed(kfs, i) ==
    Sqrt(DistanceSquared(kfs[i].viewport.center, kfs[i - 1].viewport.center))
        <= PanLimit(camera.settings, kfs[i].timestamp - kfs[i - 1].timestamp)
               + 1

\* C11: in the keyframes generate_keyframes returns, any two consecutive
\* keyframes whose timestamps differ have centers no further apart than
\* max_pan_speed times the difference in seconds (to within one unit of
\* rounding), the distance being taken from the smoothed center of the
\* earlier keyframe
C11_PanSpeed ==
    (camera_call.op = "generate_keyframes" /\ ~camera_call.panicked) =>
        \A i \in 2 .. Len(camera_call.ret) :
            camera_call.ret[i].timestamp > camera_call.ret[i - 1].timestamp
                => WithinPanSpeed(camera_call.ret, i)

\* a call with the default pan speed whose second and third keyframes both
\* had to be pulled back, the third towards a center the pass had moved
C11_Witness ==
    /\ camera_call.op = "generate_keyframes"
    /\ ~camera_call.panicked
    /\ camera.settings.max_pan_speed = DefaultMaxPanSpeed
    /\ Len(camera_call.ret) >= 3
    /\ LET sorted == SortedKeyframes(camera_call)
           ret == camera_call.ret
       IN  /\ ret[1].timestamp < ret[2].timestamp
           /\ ret[2].timestamp < ret[3].timestamp
           /\ ~WithinPanSpeed(sorted, 2)
           /\ ret[2].viewport.center /= sorted[2].viewport.center
           /\ ret[3].viewport.center /= sorted[3].viewport.center

\* the timestamps of the cursor points and focus regions of a call
InputTimestamps(c) ==
    {c.cursor_track[i].timestamp : i \in DOMAIN c.cursor_track}
        \cup {c.focus_regions[i].timestamp : i \in DOMAIN c.focus_regions}

\* the earliest of them
EarliestTimestamp(c) ==
    CHOOSE t \in InputTimestamps(c) : \A u \in InputTimestamps(c) : t <= u

\* C12: whenever the cursor track or the focus regions are non-empty, the
\* first keyframe generate_keyframes returns is the seed: the default
\* viewport with easing EaseOut at the earliest timestamp of all cursor
\* points and focus regions given
C12_SeedFirst ==
    (/\ camera_call.op = "generate_keyframes"
     /\ ~camera_call.panicked
     /\ InputTimestamps(camera_call) /= {}) =>
        /\ camera_call.ret /= <<>>
        /\ camera_call.ret[1] =
               CameraKeyframe(EarliestTimestamp(camera_call), DefaultViewport,
                              "EaseOut")

\* the timestamps of the track are non-decreasing
TrackInOrder(track) ==
    \A i \in 1 .. Len(track) - 1 : track[i].timestamp <= track[i + 1].timestamp

\* the positions in kfs of the keyframes made from cursor points
CursorDerived(kfs) == {i \in DOMAIN kfs : kfs[i].easing = "EaseInOut"}

\* C13: for a cursor track with non-decreasing timestamps, any two
\* cursor-derived keyframes (easing EaseInOut) of one generate_keyframes call
\* are at least min_hold_time_us apart, and none has a timestamp below
\* min_hold_time_us
C13_MinHold ==
    (/\ camera_call.op = "generate_keyframes"
     /\ ~camera_call.panicked
     /\ TrackInOrder(camera_call.cursor_track)) =>
        LET ret == camera_call.ret
        IN  /\ \A i \in CursorDerived(ret) :
                   ret[i].timestamp >= camera.settings.min_hold_time_us
            /\ \A i \in CursorDerived(ret) : \A j \in CursorDerived(ret) :
                   i < j => ret[j].timestamp - ret[i].timestamp
                                >= camera.settings.min_hold_time_us

\* two confident points at one timestamp past the hold time, the second far
\* from the first: only the first gave a keyframe
C13_Witness ==
    /\ camera_call.op = "generate_keyframes"
    /\ ~camera_call.panicked
    /\ camera.settings.min_hold_time_us = DefaultMinHoldTime
    /\ Len(camera_call.cursor_track) = 2
    /\ LET track == camera_call.cursor_track
       IN  /\ track[1].timestamp = track[2].timestamp
           /\ track[1].timestamp >= DefaultMinHoldTime
           /\ track[1].confidence >= MinConfidence
           /\ track[2].confidence >= MinConfidence
           /\ ~IsWithinDeadZone(camera.settings, CoordCenter,
                                track[1].position)
           /\ ~IsWithinDeadZone(camera.settings, track[1].position,
                                track[2].position)
    /\ Cardinality(CursorDerived(camera_call.ret)) = 1

\* what a call gives on an engine that was just built with the same settings
OnFreshEngine(c) ==
    GenerateKeyframes(CameraEngineNew(camera.settings), checked_build,
                      c.cursor_track, c.focus_regions)

\* C14: generate_keyframes is deterministic and independent of history:
\* whatever the engine served and holds from earlier calls, a call gives
\* what the same cursor track and focus regions give on a fresh engine with
\* the same settings
C14_HistoryIndependent ==
    camera_call.op = "generate_keyframes" =>
        /\ camera_call.panicked = OnFreshEngine(camera_call).panicked
        /\ camera_call.ret = OnFreshEngine(camera_call).keyframes

\* a second call, on an engine holding keyframes up to 1 s from the first,
\* that returned other keyframes, one of them made from a cursor point
C14_Witness ==
    /\ camera_call.op = "generate_keyframes"
    /\ ~camera_call.panicked
    /\ generation = 2
    /\ camera_call.held /= <<>>
    /\ camera_call.held[Len(camera_call.held)].timestamp = 1000000
    /\ camera_call.held /= camera_call.ret
    /\ CursorDerived(camera_call.ret) /= {}
    /\ camera.settings = SerdeDefaultSettings

\* what holds of the stored keyframes in every state
StoredIsLastReturned ==
    /\ generation = 0 => camera.keyframes = <<>>
    /\ (camera_call.op = "generate_keyframes" /\ ~camera_call.panicked) =>
           /\ camera.keyframes = camera_call.ret
           /\ (camera_call.cursor_track = <<>> /\
               camera_call.focus_regions = <<>>) => camera.keyframes = <<>>
    /\ (camera_call.op = "get_viewport_at" /\ camera.keyframes = <<>>) =>
           camera_call.ret = DefaultViewport

\* a step that is no generate_keyframes call leaves the stored keyframes
StoredUntilNextCall ==
    camera_call'.op /= "generate_keyframes" =>
        camera'.keyframes = camera.keyframes

\* C15: after any sequence of generate_keyframes calls the stored keyframes
\* are those the most recent call returned and no others; before any call
\* and after a call with both inputs empty the stored list is empty, and
\* get_viewport_at then returns the default viewport for every timestamp
C15_StoredKeyframes == []StoredIsLastReturned /\ [][StoredUntilNextCall]_vars

\* a second call that returned keyframes to an engine holding other ones
C15_Witness ==
    /\ camera_call.op = "generate_keyframes"
    /\ ~camera_call.panicked
    /\ generation = 2
    /\ camera_call.held /= <<>>
    /\ camera_call.ret /= <<>>
    /\ camera_call.ret /= camera_call.held
    /\ camera.keyframes = camera_call.ret

\* the u64 subtractions get_viewport_at comes to have no negative result:
\* the duration always, the elapsed time where it is computed
NoViewportUnderflow(kfs, t) ==
    LET prev_kf == Surrounding(kfs, t).prev_kf
        next_kf == Surrounding(kfs, t).next_kf
    IN  (t < next_kf.timestamp) =>
            /\ next_kf.timestamp >= prev_kf.timestamp
            /\ next_kf.timestamp /= prev_kf.timestamp =>
                   t >= prev_kf.timestamp

\* C16: with a non-empty stored list, get_viewport_at(t) returns the last
\* keyframe's viewport for t at or after the last timestamp, the viewport
\* of the latest keyframe with timestamp t when t is a keyframe timestamp,
\* and the first keyframe's viewport for t before the first timestamp, and
\* no subtraction in it underflows
C16_ViewportAtKeyframes ==
    (camera_call.op = "get_viewport_at" /\ camera.keyframes /= <<>>) =>
        LET kfs == camera.keyframes
            t == camera_call.timestamp
            ret == camera_call.ret
        IN  /\ t >= kfs[Len(kfs)].timestamp => ret = kfs[Len(kfs)].viewport
            /\ \A i \in DOMAIN kfs :
                   (/\ kfs[i].timestamp = t
                    /\ \A j \in DOMAIN kfs : j > i => kfs[j].timestamp /= t)
                   => ret = kfs[i].viewport
            /\ t < kfs[1].timestamp => ret = kfs[1].viewport
            /\ NoViewportUnderflow(kfs, t)

\* a viewport asked at a timestamp two keyframes of different viewports
\* share, a later keyframe following them
C16_Witness ==
    /\ camera_call.op = "get_viewport_at"
    /\ Len(camera.keyframes) = 3
    /\ LET kfs == camera.keyframes
       IN  /\ kfs[1].timestamp = camera_call.timestamp
           /\ kfs[2].timestamp = camera_call.timestamp
           /\ kfs[3].timestamp > camera_call.timestamp
           /\ kfs[1].viewport /= kfs[2].viewport
           /\ kfs[2].viewport /= kfs[3].viewport
           /\ camera_call.ret = kfs[2].viewport

---------------------------------------------------------------------------
(* Properties of the Engine *)

\* the object a configuration gives under key, the empty object if it omits
\* the key
ObjectOrEmpty(config_json, key) ==
    IF key \in DOMAIN config_json THEN config_json[key]
    ELSE [k \in {} |-> 0]

\* the camera settings of a configuration, every setting it omits at its
\* documented default
DocumentedCameraSettings(config_json) ==
    LET object == ObjectOrEmpty(config_json, "camera_settings")
    IN  [min_hold_time_us |->
             FieldOr(object, "min_hold_time_us", DefaultMinHoldTime),
         max_pan_speed |->
             FieldOr(object, "max_pan_speed", DefaultMaxPanSpeed),
         dead_zone |-> FieldOr(object, "dead_zone", DefaultDeadZone),
         zoom_strength |->
             FieldOr(object, "zoom_strength", DefaultZoomStrength)]

\* C17: when the configuration omits camera_settings or some of its fields,
\* every missing setting of the engine's camera takes its documented
\* default: min_hold_time_us 500000, max_pan_speed 0.5, dead_zone 0.05,
\* zoom_strength 1.5
C17_CameraDefaults ==
    wasm_engine.camera_engine.settings =
        DocumentedCameraSettings(engine_config)

\* the effect settings of a configuration, every toggle it omits on
DocumentedEffectSettings(config_json) ==
    LET object == ObjectOrEmpty(config_json, "effect_settings")
    IN  [click_rings |-> FieldOr(object, "click_rings", TRUE),
         cursor_highlight |-> FieldOr(object, "cursor_highlight", TRUE)]

\* C18: when the configuration omits effect_settings or some of its fields,
\* the toggles it omits are on, so that, click_rings omitted, a batch with a
\* MouseClick yields a ClickRing effect
C18_EffectDefaults ==
    /\ wasm_engine.effect_generator.settings =
           DocumentedEffectSettings(engine_config)
    /\ (/\ engine_call.op = "process_signals"
        /\ ~engine_call.panicked
        /\ DocumentedEffectSettings(engine_config).click_rings
        /\ \E i \in DOMAIN engine_call.events :
               engine_call.events[i].type = "MouseClick") =>
           \E k \in DOMAIN engine_call.ret.effect_tracks.effects :
               engine_call.ret.effect_tracks.effects[k].effect_type
                   = "ClickRing"

\* the events of a batch that are no Scroll, in batch order
NonScroll(events) == SelectSeq(events, LAMBDA e : e.type /= "Scroll")

\* point is what the claim gives for the event
PointOfEvent(point, event) ==
    /\ point.timestamp = event.timestamp
    /\ event.type \in {"MouseMove", "MouseClick"} =>
           /\ point.position = event.position
           /\ point.state = "Visible"
           /\ point.confidence = 100
    /\ event.type = "FocusChange" =>
           /\ point.position =
                  [x |-> Clamp(event.bounds.x + event.bounds.width \div 2,
                               0, 10000),
                   y |-> Clamp(event.bounds.y + event.bounds.height \div 2,
                               0, 10000)]
           /\ point.state = "Inferred"
           /\ point.confidence = 80
    /\ event.type = "FrameCaptured" =>
           /\ point.state = "Inferred"
           /\ point.confidence = 50

\* C19: the cursor track of a batch holds exactly one point per event that
\* is no Scroll, in event order and with the event's timestamp: (Visible,
\* 100) at the position of a MouseMove or MouseClick, (Inferred, 80) at the
\* center of the bounds of a FocusChange, (Inferred, 50) for a
\* FrameCaptured, and no point for a Scroll
C19_CursorTrack ==
    engine_call.op = "process_signals" =>
        LET track == engine_call.ret.cursor_track
            given == NonScroll(engine_call.events)
        IN  /\ Len(track) = Len(given)
            /\ \A i \in DOMAIN given : PointOfEvent(track[i], given[i])

\* a batch that returned, a focus change at 1 s before a mouse move at 0.5 s
C19_Witness ==
    /\ engine_call.op = "process_signals"
    /\ ~engine_call.panicked
    /\ Len(engine_call.events) = 2
    /\ engine_call.events[1].type = "FocusChange"
    /\ engine_call.events[2].type = "MouseMove"
    /\ engine_call.events[1].timestamp > engine_call.events[2].timestamp
    /\ Len(engine_call.ret.cursor_track) = 2

\* the position a tracker retains, the center if it retains none
RetainedOrCenter(tracker) ==
    IF tracker.last_position = <<>> THEN CoordCenter
    ELSE tracker.last_position[1]

\* in every state: a new engine retains no position; in the track of a
\* batch the point of a FrameCaptured event lies where the point before it
\* lies, or, first of its track, where the tracker had retained; and the
\* tracker then retains the position of the last point of the track, or
\* what it had retained if the batch gave no point
FrameCapturedFollows ==
    /\ batches = 0 => wasm_engine.cursor_tracker.last_position = <<>>
    /\ engine_call.op = "process_signals" =>
           LET track == engine_call.ret.cursor_track
               given == NonScroll(engine_call.events)
           IN  /\ \A k \in DOMAIN track :
                      given[k].type = "FrameCaptured" =>
                          track[k].position =
                              IF k > 1 THEN track[k - 1].position
                              ELSE RetainedOrCenter(engine_call.tracker)
               /\ wasm_engine.cursor_tracker.last_position =
                      IF track = <<>> THEN engine_call.tracker.last_position
                      ELSE <<track[Len(track)].position>>

\* a step that is no process_signals call leaves the tracker
RetainedUntilNextBatch ==
    engine_call'.op /= "process_signals" =>
        wasm_engine'.cursor_tracker = wasm_engine.cursor_tracker

\* C20: after any sequence of batches, the point of a FrameCaptured event
\* has the position of the cursor point emitted last before it, over the
\* preceding events of its batch and of all earlier batches, and (0.5, 0.5)
\* when none was emitted; Scroll events do not change the retained position
C20_FrameCapturedPosition ==
    []FrameCapturedFollows /\ [][RetainedUntilNextBatch]_vars

\* a second batch, a Scroll and then a FrameCaptured, on a tracker that had
\* retained a position off the center: the point lies there
C20_Witness ==
    /\ engine_call.op = "process_signals"
    /\ batches = 2
    /\ Len(engine_call.events) = 2
    /\ engine_call.events[1].type = "Scroll"
    /\ engine_call.events[2].type = "FrameCaptured"
    /\ engine_call.tracker.last_position /= <<>>
    /\ engine_call.tracker.last_position /= <<CoordCenter>>
    /\ engine_call.ret.cursor_track[1].position =
           engine_call.tracker.last_position[1]

\* the point of the cursor track that event i of the batch gave, as a
\* sequence of at most one point
PointOfIndex(events, track, i) ==
    IF events[i].type = "Scroll" THEN <<>>
    ELSE <<track[Len(NonScroll(SubSeq(events, 1, i)))]>>

\* the orders the elements of s can be put in
Orders(s) == {t \in [DOMAIN s -> {s[i] : i \in DOMAIN s}] : SameElements(s, t)}

\* the lists that hold the outputs of the first event, in any order, then
\* those of the second, and so on
RECURSIVE EventOrdered(_)
EventOrdered(per_event) ==
    IF per_event = <<>> THEN {<<>>}
    ELSE {first \o rest : first \in Orders(Head(per_event)),
                          rest \in EventOrdered(Tail(per_event))}

\* C21: within a batch the focus regions and the effects are each in input
\* event order: the regions (the effects) an event causes, those it gives
\* when analyzed alone with its cursor point, come before those of every
\* later event of the batch
C21_EventOrder ==
    (engine_call.op = "process_signals" /\ ~engine_call.panicked) =>
        LET events == engine_call.events
            track == engine_call.ret.cursor_track
        IN  /\ engine_call.ret.focus_regions \in
                   EventOrdered(
                       [i \in DOMAIN events |->
                           FocusAnalyze(<<events[i]>>,
                                        PointOfIndex(events, track, i))])
            /\ engine_call.ret.effect_tracks.effects \in
                   EventOrdered(
                       [i \in DOMAIN events |->
                           GenerateEffects(wasm_engine.effect_generator.settings,
                               <<events[i]>>,
                               PointOfIndex(events, track, i))])

\* the keyframes the loop over the cursor track of a call emitted, in the
\* order it emitted them, the seed left out
CursorEmitted(c) ==
    SelectSeq(CursorLoop(camera.settings, checked_build, c.cursor_track,
                  SeedKeyframes(c.cursor_track, c.focus_regions),
                  FirstLastKeyframeTs(camera)).keyframes,
              LAMBDA kf : kf.easing = "EaseInOut")

\* C22: timestamp differences saturate at 0: generate_keyframes on a cursor
\* track in any timestamp order does not panic, and with a min hold time
\* above 0 a point earlier than the cursor keyframe emitted last is dropped,
\* so that the cursor keyframes are emitted in non-decreasing timestamp
\* order
C22_SaturatingDifference ==
    camera_call.op = "generate_keyframes" =>
        /\ ~camera_call.panicked
        /\ (~camera_call.panicked /\ camera.settings.min_hold_time_us > 0) =>
               IsNonDecreasing(CursorEmitted(camera_call))

\* the payload does not decode: its text is malformed, or one of its events
\* carries a type tag that is none of the five
FailsToDecode(signals_json) ==
    \/ ~signals_json.well_formed
    \/ \E i \in DOMAIN signals_json.events :
           signals_json.events[i].type \notin
               {"MouseMove", "MouseClick", "FocusChange", "Scroll",
                "FrameCaptured"}

\* in every state: a process_signals call on a payload that does not decode
\* returned a failure, without a panic, having processed no event
FailsWithoutProcessing ==
    (engine_call.op = "process_signals"
     /\ FailsToDecode(engine_call.signals_json)) =>
        /\ engine_call.failed
        /\ ~engine_call.panicked
        /\ engine_call.events = <<>>
        /\ engine_call.ret.cursor_track = <<>>
        /\ wasm_engine.cursor_tracker = engine_call.tracker

\* a process_signals call on a payload that does not decode leaves the
\* engine as it was: the tracker's retained position, the camera's stored
\* keyframes, and so every later viewport and FrameCaptured fallback
FailureLeavesEngine ==
    (engine_call'.op = "process_signals"
     /\ FailsToDecode(engine_call'.signals_json)) =>
        wasm_engine' = wasm_engine

\* C23: process_signals on a payload that fails to decode (malformed text,
\* or any event with an unknown type tag) returns a failure without
\* processing any event of the batch and leaves the engine state unchanged:
\* the retained position of the tracker and the stored keyframes of the
\* camera are as before the call
C23_DecodeFailure == []FailsWithoutProcessing /\ [][FailureLeavesEngine]_vars

\* a second batch, a mouse move followed by an event of unknown type, given
\* to an engine that retains a position and holds keyframes from the first
C23_Witness ==
    /\ engine_call.op = "process_signals"
    /\ engine_call.failed
    /\ batches = 2
    /\ Len(engine_call.signals_json.events) = 2
    /\ engine_call.signals_json.events[1].type = "MouseMove"
    /\ engine_call.signals_json.events[2].type = "KeyPress"
    /\ engine_call.tracker.last_position /= <<>>
    /\ engine_call.signals_json.events[1].position
           /= engine_call.tracker.last_position[1]
    /\ wasm_engine.cursor_tracker = engine_call.tracker
    /\ wasm_engine.camera_engine.keyframes /= <<>>

---------------------------------------------------------------------------
(* Termination of the remapper's loops *)

\* more iterations than a loop whose cursor strictly advances can make
\* before it passes out_point and the end of every cut
IterationFuel(r) == r.out_point + Len(r.cuts) + 2

\* the export times to_source_time walks for: up to one past the longest
\* export, the whole range at the lowest speed
WalkedExportTimes(r) ==
    0 .. ((SpeedUnity \div SpeedMin) * (r.out_point - r.in_point) + 1)

\* the iterations export_duration makes on r
ExportRun(r) == ExportIterations(r, r.in_point, 0, IterationFuel(r))

\* the iterations the loop of to_source_time(e) makes on r
SourceRun(r, e) ==
    SourceIterations(r, SkipCutsForward(r, r.in_point), e, IterationFuel(r))

\* the iterations skip_cuts_forward(ts) makes on r
SkipRun(r, ts) == SkipIterations(r, ts, IterationFuel(r))

LastOf(run) == run[Len(run)]

\* the source cursor grows from every iteration to the next
Advances(run) ==
    \A i \in 1 .. Len(run) - 1 : run[i].source_time < run[i + 1].source_time

\* the source cursor grows from every iteration to the next, but for a step
\* that uses up the remaining export time and so ends the loop
AdvancesOrEnds(run) ==
    \A i \in 1 .. Len(run) - 1 :
        \/ run[i].source_time < run[i + 1].source_time
        \/ run[i + 1].remaining_export_time = 0 /\ i + 1 = Len(run)

\* export_duration and every skip_cuts_forward leave their loops, the cursor
\* advancing in every iteration
ExportAndSkipTerminate(r) ==
    /\ Advances(ExportRun(r))
    /\ ~(LastOf(ExportRun(r)).source_time < r.out_point)
    /\ \A ts \in r.in_point .. r.out_point :
          /\ Advances(SkipRun(r, ts))
          /\ ~IsCut(r, LastOf(SkipRun(r, ts)).source_time)

\* the loop of to_source_time(e) is left
SourceLoopLeft(r, e) ==
    ~(/\ LastOf(SourceRun(r, e)).remaining_export_time > 0
      /\ LastOf(SourceRun(r, e)).source_time < r.out_point)

\* the export times looked at in a state: the one of the to_source_time call
\* made, all of them when no call is in progress
ExportTimesAt ==
    IF call.op = "to_source_time" THEN {call.arg}
    ELSE IF call.op = "none" THEN WalkedExportTimes(remapper)
    ELSE {}

\* the results of the calls are those of the iterations followed
ResultsOfRuns ==
    /\ call.op = "export_duration" =>
           call.ret = LastOf(ExportRun(remapper)).export_duration
    /\ call.op = "to_source_time" =>
           call.ret = Min(LastOf(SourceRun(remapper, call.arg)).source_time,
                          remapper.out_point)

\* C24 as stated: export_duration() and to_source_time(e) terminate for
\* every configuration (overlapping or nested cuts, overlapping ramps, cuts
\* beyond out_point, segments of rounded export length 0), every iteration
\* of their loops and of the cut-skip loop strictly advancing the source
\* cursor
C24_EveryIterationAdvances ==
    /\ ExportAndSkipTerminate(remapper)
    /\ \A e \in ExportTimesAt :
          Advances(SourceRun(remapper, e)) /\ SourceLoopLeft(remapper, e)
    /\ ResultsOfRuns

\* C24, amended: export_duration() and to_source_time(e) terminate for every
\* such configuration: every iteration of the export_duration loop and of
\* the cut-skip loop strictly advances the source cursor, and every
\* iteration of the to_source_time loop strictly advances it or sets the
\* remaining export time to 0 and is the last
C24_Terminates ==
    /\ ExportAndSkipTerminate(remapper)
    /\ \A e \in ExportTimesAt :
          AdvancesOrEnds(SourceRun(remapper, e)) /\ SourceLoopLeft(remapper, e)
    /\ ResultsOfRuns

\* a to_source_time call on overlapping cuts, one of them reaching beyond
\* out_point: the loop crossed a segment of export length 0, the remaining
\* export time as it was, and then skipped both cuts
C24_Witness ==
    /\ call.op = "to_source_time"
    /\ Len(remapper.cuts) = 2
    /\ Overlap(remapper.cuts[1], remapper.cuts[2])
    /\ remapper.cuts[2].end > remapper.out_point
    /\ LET run == SourceRun(remapper, call.arg)
       IN  /\ Len(run) >= 2
           /\ run[2].remaining_export_time = run[1].remaining_export_time
           /\ run[2].source_time > run[1].source_time
           /\ Len(SkipRun(remapper, remapper.cuts[1].start)) = 3

\* the keyframe the claim gives for a cursor point, before smoothing
KeyframeOfPoint(settings, point) ==
    [timestamp |-> point.timestamp,
     viewport |->
         [center |-> point.position,
          zoom |-> IF point.state = "Visible" THEN settings.zoom_strength
                   ELSE IF point.state = "Inferred"
                        THEN (settings.zoom_strength * 8) \div 10
                   ELSE 10000],
     easing |-> "EaseInOut"]

\* the increasing sequence of the elements of a finite set of numbers
RECURSIVE Ascending(_)
Ascending(S) ==
    IF S = {} THEN <<>>
    ELSE LET least == CHOOSE x \in S : \A y \in S : x <= y
         IN  <<least>> \o Ascending(S \ {least})

\* kfs are the keyframes of some of the points of the track, in track
\* order, every one of these points of confidence 70 or more
FromConfidentPoints(settings, kfs, track) ==
    \E chosen \in SUBSET DOMAIN track :
        /\ \A k \in chosen : track[k].confidence >= 70
        /\ kfs = [i \in 1 .. Cardinality(chosen) |->
                     KeyframeOfPoint(settings, track[Ascending(chosen)[i]])]

\* the smoothing pass left the timestamp, the zoom and the easing of every
\* keyframe
SmoothingKeeps(ret, sorted) ==
    /\ Len(ret) = Len(sorted)
    /\ \A i \in DOMAIN ret :
          /\ ret[i].timestamp = sorted[i].timestamp
          /\ ret[i].viewport.zoom = sorted[i].viewport.zoom
          /\ ret[i].easing = sorted[i].easing

\* C25: every cursor-derived keyframe (easing EaseInOut) generate_keyframes
\* returns comes from a cursor point of confidence 70 or more, has that
\* point's timestamp and, before smoothing, the point's position as center
\* and the zoom zoom_strength for Visible, zoom_strength * 0.8 for Inferred,
\* 1.0 for Hidden; a point of confidence below 70 gives no keyframe
C25_ConfidentPoints ==
    (camera_call.op = "generate_keyframes" /\ ~camera_call.panicked) =>
        /\ FromConfidentPoints(camera.settings, CursorEmitted(camera_call),
                               camera_call.cursor_track)
        /\ SmoothingKeeps(camera_call.ret, SortedKeyframes(camera_call))
        /\ SelectSeq(SortedKeyframes(camera_call),
                     LAMBDA kf : kf.easing = "EaseInOut")
               = SortByTimestamp(CursorEmitted(camera_call))

\* a track of a point of confidence 50 and an Inferred point of confidence
\* 70, both past the hold time and far from the center: the one cursor
\* keyframe returned is that of the second, at 0.8 of the default zoom
\* strength, its center pulled back by the smoothing pass
C25_Witness ==
    /\ camera_call.op = "generate_keyframes"
    /\ ~camera_call.panicked
    /\ camera.settings = SerdeDefaultSettings
    /\ Len(camera_call.cursor_track) = 2
    /\ camera_call.cursor_track[1].confidence = 50
    /\ camera_call.cursor_track[1].timestamp >= DefaultMinHoldTime
    /\ ~IsWithinDeadZone(camera.settings, CoordCenter,
                         camera_call.cursor_track[1].position)
    /\ camera_call.cursor_track[2].state = "Inferred"
    /\ camera_call.cursor_track[2].confidence = 70
    /\ \E i \in DOMAIN camera_call.ret :
          /\ CursorDerived(camera_call.ret) = {i}
          /\ camera_call.ret[i].timestamp
                 = camera_call.cursor_track[2].timestamp
          /\ camera_call.ret[i].viewport.zoom = 12000
          /\ camera_call.ret[i].viewport.center
                 /= camera_call.cursor_track[2].position

\* keyframe i of the keyframes in the order generate_keyframes emitted them
\* (the seed, those of the cursor points, those of the focus regions) is
\* one of a focus region
FocusDriven(emitted, i) == i > 1 /\ emitted[i].easing = "EaseOut"

\* C26: a cursor point is dropped when it lies at a distance strictly below
\* dead_zone from the center of the keyframe emitted last, which is the seed
\* or the previous cursor-derived keyframe and never a focus-driven one: so
\* the unsmoothed center of every cursor-derived keyframe lies at a distance
\* of dead_zone or more from the unsmoothed center of the keyframe emitted
\* just before it
C26_DeadZone ==
    (camera_call.op = "generate_keyframes" /\ ~camera_call.panicked) =>
        LET emitted == EmittedKeyframes(camera_call)
        IN  \A i \in CursorDerived(emitted) :
                /\ i > 1
                /\ ~FocusDriven(emitted, i - 1)
                /\ DistanceSquared(emitted[i].viewport.center,
                                   emitted[i - 1].viewport.center)
                       >= camera.settings.dead_zone * camera.settings.dead_zone

\* two confident points a hold time apart, the first far from the center
\* and the second where the first lies, and an important focus region: the
\* first point gave a keyframe, the second was dropped
C26_Witness ==
    /\ camera_call.op = "generate_keyframes"
    /\ ~camera_call.panicked
    /\ camera.settings = SerdeDefaultSettings
    /\ Len(camera_call.cursor_track) = 2
    /\ LET track == camera_call.cursor_track
           emitted == EmittedKeyframes(camera_call)
       IN  /\ track[1].confidence >= MinConfidence
           /\ track[2].confidence >= MinConfidence
           /\ track[1].timestamp >= DefaultMinHoldTime
           /\ track[2].timestamp - track[1].timestamp >= DefaultMinHoldTime
           /\ track[2].position = track[1].position
           /\ CursorDerived(emitted) = {2}
           /\ emitted[2].timestamp = track[1].timestamp
           /\ \E k \in DOMAIN emitted : FocusDriven(emitted, k)

\* the keyframe the claim gives for a focus region, before smoothing
KeyframeOfRegion(settings, region) ==
    LET w == region.bounds.width
        h == region.bounds.height
        largest == IF w >= h THEN w ELSE h
        fit == 100000000 \div largest
    IN  [timestamp |-> region.timestamp,
         viewport |->
             [center |-> [x |-> Clamp(region.bounds.x + w \div 2, 0, 10000),
                          y |-> Clamp(region.bounds.y + h \div 2, 0, 10000)],
              zoom |-> IF largest = 0 THEN 10000
                       ELSE IF fit <= settings.zoom_strength THEN fit
                       ELSE settings.zoom_strength],
         easing |-> "EaseOut"]

\* the regions of importance 0.8 or more, in the order given
ImportantRegions(regions) == SelectSeq(regions, LAMBDA r : r.importance >= 80)

\* C27: generate_keyframes emits one EaseOut keyframe for each focus region
\* of importance 0.8 or more and none for a region below 0.8, at the
\* timestamp of the region, with (before smoothing) the center of the bounds
\* as center and the zoom min(1 / max(width, height), zoom_strength), or 1.0
\* when max(width, height) is 0; no min-hold, dead-zone or confidence filter
\* applies to them
C27_FocusKeyframes ==
    (camera_call.op = "generate_keyframes" /\ ~camera_call.panicked) =>
        LET emitted == EmittedKeyframes(camera_call)
            focus == SelectSeq(Tail(emitted), LAMBDA kf : kf.easing = "EaseOut")
            important == ImportantRegions(camera_call.focus_regions)
        IN  /\ emitted = <<>> => important = <<>>
            /\ emitted /= <<>> =>
                   focus = [i \in DOMAIN important |->
                               KeyframeOfRegion(camera.settings, important[i])]
            /\ SmoothingKeeps(camera_call.ret, SortedKeyframes(camera_call))
            /\ Cardinality({i \in DOMAIN camera_call.ret :
                               camera_call.ret[i].easing = "EaseOut"})
                   = Len(important)
                       + (IF camera_call.cursor_track /= <<>>
                             \/ camera_call.focus_regions /= <<>>
                          THEN 1 ELSE 0)

\* two important regions at timestamp 0, the first centered where the seed
\* lies and the second empty, and a track of one unconfident point: both
\* regions gave a keyframe, within the hold time and the dead zone of the
\* seed, the second at zoom 1.0
C27_Witness ==
    /\ camera_call.op = "generate_keyframes"
    /\ ~camera_call.panicked
    /\ camera.settings = SerdeDefaultSettings
    /\ Len(camera_call.focus_regions) = 2
    /\ LET regions == camera_call.focus_regions
           emitted == EmittedKeyframes(camera_call)
       IN  /\ regions[1].importance = 80 /\ regions[2].importance = 80
           /\ regions[1].timestamp = 0 /\ regions[2].timestamp = 0
           /\ regions[1].bounds.width = 1500
           /\ regions[2].bounds.width = 0
           /\ Len(camera_call.cursor_track) = 1
           /\ camera_call.cursor_track[1].confidence < MinConfidence
           /\ Len(emitted) = 3
           /\ emitted[2].viewport = [center |-> CoordCenter, zoom |-> 15000]
           /\ emitted[3].viewport.zoom = 10000

\* the region the claim gives for a FocusChange event
RegionOfFocusChange(event) ==
    [timestamp |-> event.timestamp, bounds |-> event.bounds,
     importance |-> 100]

\* the region the claim gives for a cursor point: 0.15 wide and high around
\* the position, cut at the left and top edges, importance confidence / 100
RegionOfPoint(point) ==
    [timestamp |-> point.timestamp,
     bounds |->
         [x |-> IF point.position.x > 750 THEN point.position.x - 750 ELSE 0,
          y |-> IF point.position.y > 750 THEN point.position.y - 750 ELSE 0,
          width |-> IF 10000 - point.position.x + 750 < 1500
                    THEN 10000 - point.position.x + 750 ELSE 1500,
          height |-> IF 10000 - point.position.y + 750 < 1500
                     THEN 10000 - point.position.y + 750 ELSE 1500],
     importance |-> point.confidence]

\* one region per FocusChange event and one per point of confidence 80 or
\* more
RegionsOfBatch(events, track) ==
    LET changes == SelectSeq(events, LAMBDA e : e.type = "FocusChange")
        confident == SelectSeq(track, LAMBDA p : p.confidence >= 80)
    IN  [i \in DOMAIN changes |-> RegionOfFocusChange(changes[i])]
            \o [i \in DOMAIN confident |-> RegionOfPoint(confident[i])]

\* how many events of the batch have the type
CountOfType(events, type) ==
    Cardinality({i \in DOMAIN events : events[i].type = type})

\* C28: analyze returns exactly one region of importance 1.0 with the
\* bounds of the event per FocusChange event, and exactly one region of
\* importance confidence / 100 per cursor point of confidence 80 or more,
\* none for a point below 80, whatever the timestamps; so in process_signals
\* a FocusChange event yields two regions and a FrameCaptured event none
C28_FocusRegions ==
    (engine_call.op = "process_signals" /\ ~engine_call.failed) =>
        LET events == engine_call.events
            regions == engine_call.ret.focus_regions
        IN  /\ SameElements(regions,
                   RegionsOfBatch(events, engine_call.ret.cursor_track))
            /\ Len(regions) = 2 * CountOfType(events, "FocusChange")
                                + CountOfType(events, "MouseMove")
                                + CountOfType(events, "MouseClick")
            /\ wasm_engine.focus_analyzer.active_regions = regions

\* a second batch, a FocusChange and a FrameCaptured at 0.5 s, on an engine
\* whose tracker was last at 1 s: two regions, of importance 1.0 and 0.8
C28_Witness ==
    /\ engine_call.op = "process_signals"
    /\ ~engine_call.panicked
    /\ batches = 2
    /\ engine_call.tracker.last_timestamp = <<1000000>>
    /\ Len(engine_call.events) = 2
    /\ engine_call.events[1].type = "FocusChange"
    /\ engine_call.events[2].type = "FrameCaptured"
    /\ engine_call.events[1].timestamp = 500000
    /\ engine_call.events[2].timestamp = 500000
    /\ Len(engine_call.ret.focus_regions) = 2
    /\ engine_call.ret.focus_regions[1].importance = 100
    /\ engine_call.ret.focus_regions[2].importance = 80

\* the effects of the list that have the type, in list order
EffectsOfType(effects, type) ==
    SelectSeq(effects, LAMBDA f : f.effect_type = type)

\* one ClickRing of 300 ms per MouseClick event, at its timestamp and
\* position
RingsOfBatch(events) ==
    LET clicks == SelectSeq(events, LAMBDA e : e.type = "MouseClick")
    IN  [i \in DOMAIN clicks |->
            [timestamp |-> clicks[i].timestamp, duration_us |-> 300000,
             effect_type |-> "ClickRing", position |-> clicks[i].position]]

\* one CursorHighlight of 100 ms per cursor point of confidence 80 or more,
\* at its timestamp and position
HighlightsOfTrack(track) ==
    LET confident == SelectSeq(track, LAMBDA p : p.confidence >= 80)
    IN  [i \in DOMAIN confident |->
            [timestamp |-> confident[i].timestamp, duration_us |-> 100000,
             effect_type |-> "CursorHighlight",
             position |-> confident[i].position]]

\* C29: the two effect toggles are independent: the effect list holds one
\* ClickRing (300000 us) per MouseClick event if click_rings is on and none
\* otherwise, one CursorHighlight (100000 us) per cursor point of
\* confidence 80 or more if cursor_highlight is on and none otherwise, and
\* nothing else; with both off it is empty
C29_EffectToggles ==
    (/\ engine_call.op = "process_signals"
     /\ ~engine_call.failed
     /\ ~engine_call.panicked) =>
        LET settings == wasm_engine.effect_generator.settings
            effects == engine_call.ret.effect_tracks.effects
            rings == EffectsOfType(effects, "ClickRing")
            highlights == EffectsOfType(effects, "CursorHighlight")
        IN  /\ Len(effects) = Len(rings) + Len(highlights)
            /\ rings = IF settings.click_rings
                       THEN RingsOfBatch(engine_call.events) ELSE <<>>
            /\ highlights =
                   IF settings.cursor_highlight
                   THEN HighlightsOfTrack(engine_call.ret.cursor_track)
                   ELSE <<>>
            /\ (~settings.click_rings /\ ~settings.cursor_highlight) =>
                   effects = <<>>

\* click_rings off and cursor_highlight on, a batch of a MouseClick and a
\* FrameCaptured: the one effect is the highlight of the click
C29_Witness ==
    /\ engine_call.op = "process_signals"
    /\ ~engine_call.failed
    /\ ~engine_call.panicked
    /\ ~wasm_engine.effect_generator.settings.click_rings
    /\ wasm_engine.effect_generator.settings.cursor_highlight
    /\ Len(engine_call.events) = 2
    /\ engine_call.events[1].type = "MouseClick"
    /\ engine_call.events[2].type = "FrameCaptured"
    /\ Len(engine_call.ret.effect_tracks.effects) = 1
    /\ engine_call.ret.effect_tracks.effects[1].effect_type
           = "CursorHighlight"
    /\ engine_call.ret.effect_tracks.effects[1].position
           = engine_call.events[1].position

---------------------------------------------------------------------------
(* The remapper with cuts only *)

\* the source microseconds of [a, b) that lie in no cut of r
KeptBetween(r, a, b) ==
    {s \in a .. (b - 1) :
        \A i \in DOMAIN r.cuts :
            ~(r.cuts[i].start <= s /\ s < r.cuts[i].end)}

\* C30: for a remapper with cuts and no speed ramps the mapping is the exact
\* inverse of cut removal: for every export time e below export_duration(),
\* the number of source microseconds of [in_point, to_source_time(e)) that
\* lie in no cut is e, so that to_source_time is strictly increasing there
\* and its results are non-cut positions of [in_point, out_point)
C30_InverseOfCutRemoval ==
    (/\ call.op = "to_source_time"
     /\ remapper.speed_ramps = <<>>
     /\ call.arg < ExportDuration(remapper)) =>
        /\ Cardinality(KeptBetween(remapper, remapper.in_point, call.ret))
               = call.arg
        /\ remapper.in_point <= call.ret /\ call.ret < remapper.out_point
        /\ KeptBetween(remapper, call.ret, call.ret + 1) = {call.ret}
        /\ \A e1 \in 0 .. (call.arg - 1) :
               ToSourceTime(remapper, e1) < call.ret
        /\ ExportDuration(remapper)
               = Cardinality(KeptBetween(remapper, remapper.in_point,
                                         remapper.out_point))

\* a cut lying between in_point and the result and no ramp: a positive
\* export time below export_duration() maps behind the cut
C30_Witness ==
    /\ call.op = "to_source_time"
    /\ remapper.speed_ramps = <<>>
    /\ Len(remapper.cuts) > 0
    /\ call.arg > 0
    /\ call.arg < ExportDuration(remapper)
    /\ remapper.in_point < remapper.cuts[1].start
    /\ remapper.cuts[1].start < remapper.cuts[1].end
    /\ call.ret >= remapper.cuts[1].end
    /\ call.ret > remapper.in_point + call.arg

===========================================================================
